---- MODULE Spec2Model ----
(***************************************************************************)
(* TrainerService (web/backend/services/trainer_service.py): the training  *)
(* lifecycle controller.  API calls arrive on thread-pool threads (the     *)
(* routers are plain "def" endpoints), the training runs on a dedicated    *)
(* thread per accepted start.  A block executed under _status_lock is one  *)
(* step; every access to a field outside the lock is a step of its own.    *)
(* Code that touches only the thread's own objects (the trainer, locals)   *)
(* and a _broadcast call, whose event log nothing here reads, are part of  *)
(* the step of the neighbouring field access.                              *)
(***************************************************************************)
EXTENDS Integers, Sequences, FiniteSets, Bags, TLC

\* ------------------------------------------------------------------ bounds
MaxCalls == 3
MaxRuns == 2
MaxEvents == 2
MaxSubscribers == 2
MaxLines == 3             \* lines written to the log
maxlen == 2               \* deque(maxlen=...) of LogService._buffer, scaled down

Calls == 1..MaxCalls
Runs == 1..MaxRuns
Events == 1..MaxEvents
Subscribers == 1..MaxSubscribers

\* ------------------------------------------------------------- vocabulary
None == 0                 \* Python None for object handles and timestamps
NoError == "none"         \* Python None for the error text
Statuses == {"idle", "running", "stopping", "error"}
FailedText == "Training failed -- check the console for details"
Kinds == {"stop", "sample_default", "sample_custom", "backup", "save"}
Outcomes == {"returned", "raised"}
NoSnapshot == [status |-> "none", error |-> NoError, start_time |-> None]
NoResponse == [op |-> "none", result |-> "none", error |-> NoError, snapshot |-> NoSnapshot]

\* _status_lock with no get_status call inside it.
Released == [holder |-> None, status |-> "none", error |-> NoError]

\* TrainConfig objects: one per run (the object get_config_for_training
\* builds for it), ConfigService.config, which is created once and only
\* ever modified in place, and the throwaway object validate_config fills.
Canonical == MaxRuns + 1
Throwaway == MaxRuns + 2
Objects == 1..(MaxRuns + 2)

\* The fields of a TrainConfig the hand-off reads.
HandoffFields == {"tensorboard", "tensorboard_always_on", "cloud_enabled", "secrets_cloud"}

\* The fields of secrets.cloud: the session key and CloudSecretsConfig.port.
SecretsCloud == {"secrets_cloud", "secrets_cloud_port"}

\* The fields of a TrainConfig: those of the hand-off, an int-typed field
\* and secrets.cloud.port, which is typed str.  The values of the last two
\* are written as JSON literals: "16" is the number 16 and "\"16\"" is the
\* string "16".
Fields == HandoffFields \cup {"batch_size", "secrets_cloud_port"}

\* The values a field holds once it was set through from_dict.
FieldValues(f) ==
    CASE f = "secrets_cloud" -> {"k1", "k2"}
      [] f = "batch_size" -> {"1", "16"}
      [] f = "secrets_cloud_port" -> {"\"0\"", "\"22\""}
      [] OTHER -> BOOLEAN

\* The values a request can carry for a field: those above, a number in a
\* string, a string that is no number, a number for the str-typed port.
RawValues(f) ==
    CASE f = "batch_size" -> {"1", "16", "\"16\"", "\"abc\""}
      [] f = "secrets_cloud_port" -> {"0", "\"0\"", "\"22\""}
      [] OTHER -> FieldValues(f)

\* TrainConfig.default_values(): the compiled-in defaults.  The port
\* defaults to the int 0 although the field is typed str.
default_values ==
    [f \in Fields |->
        CASE f = "secrets_cloud" -> "k1"
          [] f = "batch_size" -> "1"
          [] f = "secrets_cloud_port" -> "0"
          [] OTHER -> f = "tensorboard"]

\* TrainConfig.config_version: the schema version of this build.
config_version == 10

\* The versions a stored or submitted mapping can carry.
Versions == 0..config_version

\* The key a migration step reads unconditionally (as migration_8 reads
\* data["model_type"]): a mapping without it makes the step raise KeyError.
MigrationKey == "batch_size"

\* The step that reads MigrationKey.
MigrationKeyStep == 8

\* The version a mapping is at: the one it carries, or the oldest.
VersionOf(data) == IF "__version" \in DOMAIN data THEN data["__version"] ELSE 0

\* The migration registered for version v raises KeyError on `data`.
MigrationRaises(v, data) == v = MigrationKeyStep /\ MigrationKey \notin DOMAIN data

\* The migration registered for version v: it takes a mapping at version v
\* to one at version v + 1.  Of what the steps do to the keys only the
\* version tag is kept.
migration(v, data) == ("__version" :> v + 1) @@ data

\* Faulty variant: only the step registered for the version of the
\* mapping runs.
MigratedOneStep(data) ==
    LET v == VersionOf(data)
    IN  IF v >= config_version \/ MigrationRaises(v, data)
        THEN data
        ELSE migration(v, data)

\* The versions whose migration from_dict runs on `data`, in the order
\* they run: from the version of the mapping upwards, each step on the
\* output of the one before, until the mapping is at config_version or a
\* step raises.
RECURSIVE AppliedMigrations(_)
AppliedMigrations(data) ==
    LET v == VersionOf(data)
    IN  IF v >= config_version \/ MigrationRaises(v, data)
        THEN <<>>
        ELSE <<v>> \o AppliedMigrations(migration(v, data))

\* The mapping the migrations of from_dict leave: `data` taken through
\* the steps above.
RECURSIVE Migrated(_)
Migrated(data) ==
    LET v == VersionOf(data)
    IN  IF v >= config_version \/ MigrationRaises(v, data)
        THEN data
        ELSE Migrated(migration(v, data))

\* The number of migration steps from_dict runs on `data`.
MigrationSteps(data) == Len(AppliedMigrations(data))

\* from_dict(data) raises: a migration step ran on a mapping without the
\* key it reads.
Raises(data) == VersionOf(Migrated(data)) < config_version

\* The value `v` can be set on field f: a string that is no number cannot
\* be set on an int field ("Could not set <field> as <value>").
Coerces(f, v) == ~(f = "batch_size" /\ v = "\"abc\"")

\* The value field f holds after it was set to `v`: an int field parses a
\* number in a string, a str field turns a number into its text.
Coerce(f, v) ==
    CASE f = "batch_size" /\ v = "\"16\"" -> "16"
      [] f = "secrets_cloud_port" /\ v = "0" -> "\"0\""
      [] OTHER -> v

\* BaseConfig.to_dict(): every field is emitted, and the schema version.
to_dict(doc) ==
    [k \in Fields \cup {"__version"} |->
        IF k = "__version" THEN config_version ELSE doc[k]]

\* BaseConfig.from_dict(data) on the object with fields `doc`: the
\* migrations the version of `data` asks for run first, and a KeyError of
\* theirs leaves the object as it was; then the fields present in `data`
\* are set to their coerced values, a field whose value cannot be coerced
\* is skipped with a printed line, keys that name no field are dropped,
\* the other fields keep their values.
from_dict(doc, data) ==
    IF Raises(data)
    THEN doc
    ELSE LET migrated == Migrated(data)
         IN  [f \in Fields |->
                IF f \in DOMAIN migrated /\ Coerces(f, migrated[f])
                THEN Coerce(f, migrated[f])
                ELSE doc[f]]

\* Faulty variant: the config is left as default_values() built it.
ConfigService_init_raw == default_values

\* Lines 32-41 of config_service.py: ConfigService.__init__.  The default
\* config goes once through to_dict/from_dict, so that field types are
\* normalised from the start.
ConfigService_init == from_dict(default_values, to_dict(default_values))

\* A broadcast task that does not exist yet: its position, the index of the
\* connection it is sending to, the websockets whose send raised.
NoTask == [pc |-> "none", i |-> 0, stale |-> {}]

\* A broadcast task that has returned.
Done == [pc |-> "done", i |-> 0, stale |-> {}]

\* A broadcast task that was cancelled with the loop.
Cancelled == [pc |-> "cancelled", i |-> 0, stale |-> {}]

\* What setup() or run() may raise.
Exceptions == {"boom", "out of memory"}

\* The service classes: each is declared `class X(SingletonMixin)`.
ServiceClasses == {"ConfigService", "TrainerService"}

\* __init_subclass__ gives every subclass a lock of its own: the lock
\* cls._singleton_lock resolves to.
LockOf(cls) == cls

\* Python None where an object is expected.
NoInstance == [class |-> "NoneType", serial |-> 0]

\* cls(): a new object of class cls, the serial-th one constructed.
New(cls, serial) == [class |-> cls, serial |-> serial]

\* sys.stdout as LogService.install leaves it: the tee onto the process's
\* own stream.  A StringIO is named by the call that created it.
ProcessStream == 0

\* No reply yet.
NoResult == [valid |-> TRUE, errors |-> {"no result"}]

\* ToolService.__init__: the fields of a new instance.
ToolService_init ==
    [status |-> "idle", progress |-> 0, max_progress |-> 0, error |-> NoError,
     task_id |-> None, thread |-> None, cancel_flag |-> FALSE]

VARIABLES
    status,             \* self._status
    error_message,      \* self._error_message (None or a text)
    training_commands,  \* self._training_commands (None or a run's TrainCommands)
    start_time,         \* self._start_time (None or the run that stamped it)
    ncalls,             \* API calls made so far
    op,                 \* op[c]: the service method call c is executing
    cpc,                \* cpc[c]: position of call c inside its method
    crun,               \* crun[c]: the run (commands, trainer) call c created
    response,           \* the latest return: method, result, snapshot
    nruns,              \* TrainCommands / trainer objects created so far
    wpc,                \* wpc[w]: position of run w's thread in _training_thread_fn
    error_caught,       \* error_caught[w]: the local flag of _training_thread_fn
    trainer_calls,      \* trainer_calls[w]: calls made on run w's trainer, in order
    received,           \* received[w][k]: calls of kind k made on run w's TrainCommands
    events,             \* the bag of messages handed to _ws_broadcast
    status_lock,        \* self._status_lock: the get_status call inside it, what it read
    documents,          \* documents[o]: the fields of TrainConfig object o
    train_config,       \* train_config[w]: the TrainConfig object handed to run w
    hpc,                \* hpc[w]: position of run w in the configuration hand-off
    caught,             \* caught[w]: the exception run w's thread caught and printed
    tensorboard_subprocess,  \* _always_on_tensorboard_subprocess is not None
    stopped_tensorboard, \* stopped_tensorboard[w]: start() of run w stopped a live one
    connections,        \* manager._connections: the registered websockets, in order
    lock,               \* manager._lock: held or not, and the tasks waiting for it
    event_loop,         \* _event_loop has been captured
    loop_running,       \* the server's event loop is running
    ready,              \* the event loop's queue of tasks ready to run
    btask,              \* btask[e]: the task running manager.broadcast(message e)
    handler,            \* handler[s]: position of the /ws/training handler of client s
    inbox,              \* inbox[s]: the messages sent to client s, in order
    broken,             \* broken[s]: client s is gone without a close, a send to it raises
    emitted,            \* messages the training thread has passed to broadcast_sync
    raised,             \* the calls of broadcast_sync that raised in their caller
    instances,          \* instances[cls]: cls._instance (NoInstance or the object)
    singleton_lock,     \* singleton_lock[l]: the thread inside lock l, or None
    constructed,        \* constructed[cls]: how many times cls() has run
    gpc,                \* gpc[t]: position of thread t inside get_instance
    gcls,               \* gcls[t]: the class thread t calls get_instance on
    got,                \* got[t]: what thread t's latest get_instance returned
    tool,               \* the fields of the ToolService instance
    tcpc,               \* tcpc[c]: position of API call c inside its ToolService method
    ttask,              \* ttask[c]: the task id call c generated
    ntasks,             \* task ids generated so far
    tpc,                \* tpc[k]: position of the tool thread of task k
    tool_response,      \* the latest return of a ToolService method
    sys_stdout,         \* sys.stdout: the process stream, or the StringIO of a call
    validate_lock,      \* ConfigService._validate_lock: the call inside it, or None
    vpc,                \* vpc[c]: position of API call c inside validate_config
    vdata,              \* vdata[c]: the mapping call c validates
    captured,           \* captured[c]: the lines in the StringIO of call c
    verrors,            \* verrors[c]: the local list `errors` of call c
    vresult,            \* vresult[c]: what validate_config returned to call c
    nprints,            \* lines the training thread has printed so far
    log_buffer,         \* LogService._buffer: the lines kept, oldest first
    nlines,             \* lines appended so far; line n is the n-th appended
    apc,                \* apc[t]: position of thread t inside LogService._append
    aline,              \* aline[t]: the line thread t is appending
    ws_broadcast,       \* LogService._ws_broadcast is not None
    log_event_loop,     \* terminal_ws._event_loop has been captured
    log_connections,    \* terminal_ws.manager._connections, in order
    log_tasks,          \* the manager.broadcast coroutines scheduled, in order
    log_handler,        \* log_handler[s]: position of the /ws/terminal handler of s
    log_history,        \* log_history[s]: what is left to replay to client s
    log_inbox           \* log_inbox[s]: the lines sent to client s, in order

service == <<status, error_message, training_commands, start_time>>
callvars == <<ncalls, op, cpc, crun, response>>
runvars == <<nruns, wpc, error_caught, trainer_calls, received>>
vars == <<service, callvars, runvars, events, status_lock>>
handoffvars ==
    <<documents, train_config, hpc, caught, tensorboard_subprocess, stopped_tensorboard>>
bridgevars ==
    <<connections, lock, event_loop, loop_running, ready, btask, handler, inbox,
      broken, emitted, raised>>
singletonvars == <<instances, singleton_lock, constructed, gpc, gcls, got>>
toolvars == <<tool, tcpc, ttask, ntasks, tpc, tool_response>>
validatevars ==
    <<sys_stdout, validate_lock, vpc, vdata, captured, verrors, vresult, nprints>>
streamvars ==
    <<log_buffer, nlines, apc, aline, ws_broadcast, log_event_loop,
      log_connections, log_tasks, log_handler, log_history, log_inbox>>
backendvars == <<singletonvars, toolvars, validatevars, streamvars>>

\* `with suppress(Exception): <block>`: whatever the block did, control
\* continues normally after it.
suppress(outcome) == "returned"

\* self._broadcast(message): hands the message to the injected callback and
\* swallows anything it raises.
broadcast(type, text) ==
    events' = events (+) SetToBag({[type |-> type, text |-> text]})

StatusEvent(text) == broadcast("status", text)

Init ==
    /\ status = "idle"
    /\ error_message = NoError
    /\ training_commands = None
    /\ start_time = None
    /\ ncalls = 0
    /\ op = [c \in Calls |-> "none"]
    /\ cpc = [c \in Calls |-> "none"]
    /\ crun = [c \in Calls |-> None]
    /\ response = NoResponse
    /\ nruns = 0
    /\ wpc = [w \in Runs |-> "none"]
    /\ error_caught = [w \in Runs |-> FALSE]
    /\ trainer_calls = [w \in Runs |-> <<>>]
    /\ received = [w \in Runs |-> [k \in Kinds |-> 0]]
    /\ events = EmptyBag
    /\ status_lock = Released
    /\ documents = [o \in Objects |->
                        IF o = Canonical THEN ConfigService_init ELSE default_values]
    /\ train_config = [w \in Runs |-> None]
    /\ hpc = [w \in Runs |-> "none"]
    /\ caught = [w \in Runs |-> NoError]
    /\ tensorboard_subprocess = FALSE
    /\ stopped_tensorboard = [w \in Runs |-> FALSE]
    /\ connections = <<>>
    /\ lock = [locked |-> FALSE, waiters |-> <<>>]
    /\ event_loop = FALSE
    /\ loop_running = TRUE
    /\ ready = <<>>
    /\ btask = [e \in Events |-> NoTask]
    /\ handler = [s \in Subscribers |-> "none"]
    /\ inbox = [s \in Subscribers |-> <<>>]
    /\ broken = [s \in Subscribers |-> FALSE]
    /\ emitted = 0
    /\ raised = {}
    /\ instances = [cls \in ServiceClasses |-> NoInstance]
    /\ singleton_lock = [l \in {LockOf(cls) : cls \in ServiceClasses} |-> None]
    /\ constructed = [cls \in ServiceClasses |-> 0]
    /\ gpc = [t \in Calls |-> "none"]
    /\ gcls = [t \in Calls |-> "ConfigService"]
    /\ got = [t \in Calls |-> NoInstance]
    /\ tool = ToolService_init
    /\ tcpc = [c \in Calls |-> "none"]
    /\ ttask = [c \in Calls |-> None]
    /\ ntasks = 0
    /\ tpc = [k \in Runs |-> "none"]
    /\ tool_response = [op |-> "none", ok |-> TRUE]
    /\ sys_stdout = ProcessStream
    /\ validate_lock = None
    /\ vpc = [c \in Calls |-> "none"]
    /\ vdata = [c \in Calls |-> "batch_size" :> "1"]
    /\ captured = [c \in Calls |-> {}]
    /\ verrors = [c \in Calls |-> {}]
    /\ vresult = [c \in Calls |-> NoResult]
    /\ nprints = 0
    /\ log_buffer = <<>>
    /\ nlines = 0
    /\ apc = [t \in Runs |-> "none"]
    /\ aline = [t \in Runs |-> 0]
    /\ ws_broadcast = FALSE
    /\ log_event_loop = FALSE
    /\ log_connections = <<>>
    /\ log_tasks = <<>>
    /\ log_handler = [s \in Subscribers |-> "none"]
    /\ log_history = [s \in Subscribers |-> <<>>]
    /\ log_inbox = [s \in Subscribers |-> <<>>]

\* A new API call (one request handled by a thread-pool thread).
NewCall(c) ==
    /\ ncalls < MaxCalls
    /\ c = ncalls + 1
    /\ ncalls' = c

\* Call c goes on inside `method`, at position `at`.
Continue(c, method, at) ==
    /\ op' = [op EXCEPT ![c] = method]
    /\ cpc' = [cpc EXCEPT ![c] = at]
    /\ UNCHANGED response

\* Call c returns `reply`: its frame is gone, the caller holds the reply.
Return(c, method, reply) ==
    /\ op' = [op EXCEPT ![c] = "none"]
    /\ cpc' = [cpc EXCEPT ![c] = "none"]
    /\ response' = [op |-> method] @@ reply

\* The dicts the service methods return.
Ok == [result |-> "ok", error |-> NoError, snapshot |-> NoSnapshot]
Conflict(text) == [result |-> "conflict", error |-> text, snapshot |-> NoSnapshot]
\* An exception leaving the method instead of a dict.
Raised == [result |-> "raised", error |-> NoError, snapshot |-> NoSnapshot]
AlreadyActive(s) == "Training is already " \o s
NotRunning == "Training is not running"

\* `with self._status_lock:` is entered: no get_status call is inside it.
\* The other blocks under the lock read and write _status and
\* _error_message only, which nothing touches outside the lock: each is one
\* step.
Acquires(lk) == lk.holder = None

\* self._set_status(status, error_message): both fields under _status_lock.
set_status(s, msg) ==
    /\ status' = s
    /\ error_message' = msg

\* ------------------------------------------------------- start_training
\* Faulty variants of the check: one of the two active states is forgotten.
StartRejectsStoppingOnly(s) == s = "stopping"
StartRejectsRunningOnly(s) == s = "running"

\* The states in which start_training answers "already active".
StartRejects(s) == s \in {"running", "stopping"}

\* Lines 150-152: the locked check.  Nothing is reserved by it: the lock is
\* released before the run is prepared.
start_training_check(c) ==
    /\ NewCall(c)
    /\ Acquires(status_lock)
    /\ IF StartRejects(status)
       THEN /\ Return(c, "start", Conflict(AlreadyActive(status)))
            /\ UNCHANGED <<crun, nruns>>
       ELSE /\ nruns < MaxRuns
            /\ nruns' = nruns + 1
            /\ crun' = [crun EXCEPT ![c] = nruns + 1]
            /\ Continue(c, "start", "start_commands")
    /\ UNCHANGED <<service, wpc, error_caught, trainer_calls, received, events>>

\* Lines 154-201: flush, snapshot, create TrainCommands / callbacks / trainer
\* (all local to the call), then publish the commands handle, unlocked.
start_training_commands(c) ==
    /\ cpc[c] = "start_commands"
    /\ training_commands' = crun[c]
    /\ Continue(c, "start", "start_status")
    /\ UNCHANGED <<status, error_message, start_time>>
    /\ UNCHANGED <<ncalls, crun, runvars, events>>

\* Lines 202-203: self._set_status("running"), then the "Starting" event.
start_training_status(c) ==
    /\ cpc[c] = "start_status"
    /\ Acquires(status_lock)
    /\ set_status("running", NoError)
    /\ StatusEvent("Starting training...")
    /\ Continue(c, "start", "start_spawn")
    /\ UNCHANGED <<training_commands, start_time>>
    /\ UNCHANGED <<ncalls, crun, runvars>>

\* Lines 205-214: create the thread, store it, start it, return ok.  The
\* _training_thread field is written here and at line 258 and read nowhere:
\* it is not part of the state.
start_training_spawn(c) ==
    /\ cpc[c] = "start_spawn"
    /\ wpc' = [wpc EXCEPT ![crun[c]] = "setup"]
    /\ crun' = [crun EXCEPT ![c] = None]
    /\ Return(c, "start", Ok)
    /\ UNCHANGED <<status, error_message, training_commands, start_time>>
    /\ UNCHANGED <<ncalls, nruns, error_caught, trainer_calls, received, events>>

\* -------------------------------------------------- _training_thread_fn
\* Faulty variant: trainer.end() is called without suppress(Exception), so an
\* exception of end() ends the thread.
teardown_unsuppressed(w, outcome) ==
    IF outcome = "returned" THEN "cleanup" ELSE "done"

\* Lines 251-253: finally: with suppress(Exception): trainer.end().  The
\* position the thread goes on from once the try statement is left.
teardown(w, outcome) ==
    IF suppress(outcome) = "returned" THEN "cleanup" ELSE "done"

\* Faulty variant: the start time is stamped before trainer.start() is called, so it
\* is set even when setup raises.
training_thread_setup_stamps_first(w) ==
    /\ wpc[w] = "setup"
    /\ start_time' = w
    /\ \/ /\ trainer_calls' = [trainer_calls EXCEPT ![w] = @ \o <<"start">>]
          /\ wpc' = [wpc EXCEPT ![w] = "train"]
          /\ UNCHANGED error_caught
       \/ /\ trainer_calls' = [trainer_calls EXCEPT ![w] = @ \o <<"start", "end">>]
          /\ error_caught' = [error_caught EXCEPT ![w] = TRUE]
          /\ wpc' = [wpc EXCEPT ![w] = "cleanup"]
    /\ UNCHANGED <<status, error_message, training_commands>>
    /\ UNCHANGED <<callvars, nruns, received, events>>

\* Lines 227-238: trainer.start().  If it returns, the start time is
\* stamped (unlocked) and train() is entered.  If it raises, the except
\* block (240-250) sets error_caught and the finally block runs.
training_thread_setup(w) ==
    /\ wpc[w] = "setup"
    /\ \/ /\ trainer_calls' = [trainer_calls EXCEPT ![w] = @ \o <<"start">>]
          /\ start_time' = w
          /\ wpc' = [wpc EXCEPT ![w] = "train"]
          /\ UNCHANGED error_caught
       \/ \E end \in Outcomes :
            /\ trainer_calls' = [trainer_calls EXCEPT ![w] = @ \o <<"start", "end">>]
            /\ error_caught' = [error_caught EXCEPT ![w] = TRUE]
            /\ wpc' = [wpc EXCEPT ![w] = teardown(w, end)]
            /\ UNCHANGED start_time
    /\ UNCHANGED <<status, error_message, training_commands>>
    /\ UNCHANGED <<callvars, nruns, received, events>>

\* Lines 239-253: trainer.train() returns (the training completed, or it
\* saw the stop command) or raises; then the finally block runs.
training_thread_train(w) ==
    /\ wpc[w] = "train"
    /\ \E outcome \in Outcomes, end \in Outcomes :
         /\ trainer_calls' = [trainer_calls EXCEPT ![w] = @ \o <<"train", "end">>]
         /\ error_caught' = [error_caught EXCEPT ![w] = (outcome = "raised")]
         /\ wpc' = [wpc EXCEPT ![w] = teardown(w, end)]
    /\ UNCHANGED <<service, callvars, nruns, received, events>>

\* Faulty variant: the exiting thread leaves the commands handle in place.
training_thread_cleanup_keeps_handle(w) ==
    /\ wpc[w] = "cleanup"
    /\ wpc' = [wpc EXCEPT ![w] = "set_status"]
    /\ UNCHANGED <<status, error_message, training_commands, start_time>>
    /\ UNCHANGED <<callvars, nruns, error_caught, trainer_calls, received, events>>

\* Lines 256-260: drop the thread, commands and callbacks handles, unlocked.
training_thread_cleanup(w) ==
    /\ wpc[w] = "cleanup"
    /\ training_commands' = None
    /\ wpc' = [wpc EXCEPT ![w] = "set_status"]
    /\ UNCHANGED <<status, error_message, start_time>>
    /\ UNCHANGED <<callvars, nruns, error_caught, trainer_calls, received, events>>

\* Lines 271-276: the locked status update, then the closing event.
training_thread_set_status(w) ==
    /\ wpc[w] = "set_status"
    /\ Acquires(status_lock)
    /\ IF error_caught[w]
       THEN /\ set_status("error", FailedText)
            /\ StatusEvent("Error: check the console for details")
       ELSE /\ set_status("idle", NoError)
            /\ StatusEvent("Stopped")
    /\ wpc' = [wpc EXCEPT ![w] = "clear_start_time"]
    /\ UNCHANGED <<training_commands, start_time>>
    /\ UNCHANGED <<callvars, nruns, error_caught, trainer_calls, received>>

\* Lines 278-283: self._start_time = None, unlocked; then the thread ends.
training_thread_clear_start_time(w) ==
    /\ wpc[w] = "clear_start_time"
    /\ start_time' = None
    /\ wpc' = [wpc EXCEPT ![w] = "done"]
    /\ UNCHANGED <<status, error_message, training_commands>>
    /\ UNCHANGED <<callvars, nruns, error_caught, trainer_calls, received, events>>

\* ------------------------------------------------------------- commands
\* Faulty variant: the call on the commands object is left out.
SendNothing(commands, kind) == received' = received

\* One call of method `kind` on the TrainCommands object `commands`.
Send(commands, kind) ==
    received' = [received EXCEPT ![commands][kind] = @ + 1]

\* Faulty variant of the check: a stop is accepted while one is already under way.
StopAcceptsActive(s) == s \in {"running", "stopping"}

\* The states in which stop_training is accepted.
StopAccepts(s) == s = "running"

\* Lines 291-295: the locked check and transition.
stop_training_check(c) ==
    /\ NewCall(c)
    /\ Acquires(status_lock)
    /\ IF StopAccepts(status)
       THEN /\ status' = "stopping"
            /\ error_message' = NoError
            /\ Continue(c, "stop", "stop_send")
       ELSE /\ Return(c, "stop", Conflict(NotRunning))
            /\ UNCHANGED <<status, error_message>>
    /\ UNCHANGED <<training_commands, start_time>>
    /\ UNCHANGED <<crun, runvars, events>>

\* Faulty variant: the forwarding call is not wrapped in suppress(Exception).
ForwardedUnsuppressed(outcome) == IF outcome = "returned" THEN Ok ELSE Raised

\* Result of a block that forwards a command under suppress(Exception).
Forwarded(outcome) == IF suppress(outcome) = "returned" THEN Ok ELSE Raised

\* Lines 297-304: the "Stopping" event; then read the handle, unlocked, and
\* forward stop() if there is one.
stop_training_send(c) ==
    /\ cpc[c] = "stop_send"
    /\ StatusEvent("Stopping...")
    /\ IF training_commands # None
       THEN \E outcome \in Outcomes :
              /\ Send(training_commands, "stop")
              /\ Return(c, "stop", Forwarded(outcome))
       ELSE /\ Return(c, "stop", Ok)
            /\ UNCHANGED received
    /\ UNCHANGED <<service, ncalls, crun, nruns, wpc, error_caught, trainer_calls>>

\* Lines 306-340: sample_now, sample_custom, backup_now, save_now share one
\* body: read the handle, unlocked; conflict if None, else forward.
ForwardCommand(c, method, kind) ==
    /\ NewCall(c)
    /\ IF training_commands = None
       THEN /\ Return(c, method, Conflict(NotRunning))
            /\ UNCHANGED received
       ELSE \E outcome \in Outcomes :
              /\ Send(training_commands, kind)
              /\ Return(c, method, Forwarded(outcome))
    /\ UNCHANGED <<service, crun, nruns, wpc, error_caught, trainer_calls, events>>

sample_now(c) == ForwardCommand(c, "sample_now", "sample_default")
sample_custom(c) == ForwardCommand(c, "sample_custom", "sample_custom")
backup_now(c) == ForwardCommand(c, "backup_now", "backup")
save_now(c) == ForwardCommand(c, "save_now", "save")

\* Lines 125-128: get_status enters the lock and evaluates the first two
\* entries of the dict, self._status and self._error_message.
get_status_lock(c) ==
    /\ NewCall(c)
    /\ Acquires(status_lock)
    /\ status_lock' = [holder |-> c, status |-> status, error |-> error_message]
    /\ Continue(c, "get_status", "status_read")
    /\ UNCHANGED <<service, crun, runvars, events>>

\* Lines 129-130: still inside the lock, self._start_time is read, which
\* the training thread writes without the lock; the dict is returned.
get_status(c) ==
    /\ cpc[c] = "status_read"
    /\ Return(c, "get_status",
              [Ok EXCEPT !.snapshot = [status |-> status_lock.status,
                                       error |-> status_lock.error,
                                       start_time |-> start_time]])
    /\ status_lock' = Released
    /\ UNCHANGED <<service, ncalls, crun, runvars, events>>

\* ------------------------------------------------------------------ Spec
\* The lifecycle view: the calls and the worker threads of TrainerService
\* take their steps; the configuration documents, the TensorBoard subprocess
\* and the websocket side are left as they are.
Next ==
    \/ (\E c \in Calls : start_training_check(c)) /\ UNCHANGED <<status_lock, handoffvars, bridgevars, backendvars>>
    \/ (\E c \in Calls : start_training_commands(c)) /\ UNCHANGED <<status_lock, handoffvars, bridgevars, backendvars>>
    \/ (\E c \in Calls : start_training_status(c)) /\ UNCHANGED <<status_lock, handoffvars, bridgevars, backendvars>>
    \/ (\E c \in Calls : start_training_spawn(c)) /\ UNCHANGED <<status_lock, handoffvars, bridgevars, backendvars>>
    \/ (\E c \in Calls : stop_training_check(c)) /\ UNCHANGED <<status_lock, handoffvars, bridgevars, backendvars>>
    \/ (\E c \in Calls : stop_training_send(c)) /\ UNCHANGED <<status_lock, handoffvars, bridgevars, backendvars>>
    \/ (\E c \in Calls : sample_now(c)) /\ UNCHANGED <<status_lock, handoffvars, bridgevars, backendvars>>
    \/ (\E c \in Calls : sample_custom(c)) /\ UNCHANGED <<status_lock, handoffvars, bridgevars, backendvars>>
    \/ (\E c \in Calls : backup_now(c)) /\ UNCHANGED <<status_lock, handoffvars, bridgevars, backendvars>>
    \/ (\E c \in Calls : save_now(c)) /\ UNCHANGED <<status_lock, handoffvars, bridgevars, backendvars>>
    \/ (\E c \in Calls : get_status_lock(c)) /\ UNCHANGED <<handoffvars, bridgevars, backendvars>>
    \/ (\E c \in Calls : get_status(c)) /\ UNCHANGED <<handoffvars, bridgevars, backendvars>>
    \/ (\E w \in Runs : training_thread_setup(w)) /\ UNCHANGED <<status_lock, handoffvars, bridgevars, backendvars>>
    \/ (\E w \in Runs : training_thread_train(w)) /\ UNCHANGED <<status_lock, handoffvars, bridgevars, backendvars>>
    \/ (\E w \in Runs : training_thread_cleanup(w)) /\ UNCHANGED <<status_lock, handoffvars, bridgevars, backendvars>>
    \/ (\E w \in Runs : training_thread_set_status(w)) /\ UNCHANGED <<status_lock, handoffvars, bridgevars, backendvars>>
    \/ (\E w \in Runs : training_thread_clear_start_time(w)) /\ UNCHANGED <<status_lock, handoffvars, bridgevars, backendvars>>

Spec == Init /\ [][Next]_<<vars, handoffvars, bridgevars, backendvars>>

TypeOK ==
    /\ status \in Statuses
    /\ error_message \in {NoError, FailedText}
    /\ training_commands \in {None} \cup Runs
    /\ start_time \in {None} \cup Runs
    /\ ncalls \in 0..MaxCalls
    /\ nruns \in 0..MaxRuns

\* ================================================ configuration hand-off
\* ConfigService (web/backend/services/config_service.py) and the parts of
\* start_training and _training_thread_fn that read or write configuration
\* documents and the always-on TensorBoard subprocess.  The position hpc[w]
\* follows the thread of run w.  A block under ConfigService._config_lock is
\* one step.

\* The payloads of PUT /config the hand-off view sends: partial mappings
\* of one field the hand-off reads.
Patches == UNION {{f :> v : v \in FieldValues(f)} : f \in HandoffFields}

\* The contents of the built-in preset files: sparse and fuller ones.
Presets ==
    {[tensorboard_always_on |-> TRUE],
     [tensorboard |-> FALSE, cloud_enabled |-> TRUE, secrets_cloud |-> "k2"]}

\* The mappings PUT /config and POST /config/validate can carry: one field
\* with any value a request can give it, or a key that names no field;
\* without a version, with an older one or with the current one.
RawMappings ==
    LET bodies == UNION {{f :> v : v \in RawValues(f)} : f \in Fields}
                    \cup {"no_such_field" :> TRUE}
    IN  bodies \cup {d @@ ("__version" :> v) : d \in bodies, v \in Versions}

\* Faulty variant: the mapping is applied onto fresh defaults.
ApplyToDefaults(doc, data) == from_dict(default_values, data)

\* Line 72: self.config.from_dict(data), on the config as it is.
Apply(doc, data) == from_dict(doc, data)

\* Lines 70-71: the current schema version is injected when the mapping
\* carries none; a version the mapping carries is left as it is.
Stamped(data) ==
    IF "__version" \in DOMAIN data
    THEN data
    ELSE data @@ ("__version" :> config_version)

\* Faulty variant: a value that could not be set is answered with errors.
UpdateReturnsErrors(data) ==
    IF Raises(Stamped(data))
    THEN "KeyError"
    ELSE IF \E f \in Fields \cap DOMAIN data : ~Coerces(f, data[f])
         THEN "errors"
         ELSE "document"

\* Lines 72-73: what update_config answers: the exception of from_dict
\* goes to the caller, otherwise self.config.to_dict() is returned.
UpdateReturns(data) == IF Raises(Stamped(data)) THEN "KeyError" ELSE "document"

\* Lines 52-73: update_config(data), under the lock.
update_config(data) ==
    /\ documents' = [documents EXCEPT ![Canonical] = Apply(@, Stamped(data))]
    /\ UNCHANGED <<train_config, hpc, caught, tensorboard_subprocess, stopped_tensorboard>>
    /\ UNCHANGED vars

\* Lines 106-110: a built-in preset is forced to the current version.
BuiltIn(loaded_dict) == ("__version" :> config_version) @@ loaded_dict

\* The contents of the preset files a user saved: a fuller one from the
\* oldest version, sparse ones from versions before and after the step
\* that reads MigrationKey, one without a version that carries an unknown
\* key, one of the current version, one with a value that cannot be set.
UserPresets ==
    {("__version" :> 0) @@ [batch_size |-> "16", tensorboard |-> FALSE],
     ("__version" :> MigrationKeyStep) @@ [tensorboard_always_on |-> TRUE],
     ("__version" :> MigrationKeyStep + 1) @@ [cloud_enabled |-> TRUE],
     [no_such_field |-> TRUE, batch_size |-> "\"16\""],
     ("__version" :> config_version) @@ [secrets_cloud_port |-> "\"22\""],
     ("__version" :> config_version) @@ [batch_size |-> "\"abc\"", tensorboard |-> FALSE]}

\* What secrets.json holds when load_preset opens it: no file (the empty
\* sequence) or the one mapping in it.
SecretsFiles == {<<>>, <<[secrets_cloud |-> "k2"]>>}

\* Line 118: SecretsConfig.default_values().from_dict(secrets_dict), for
\* the fields of secrets.cloud.
SecretsFromFile(secrets_dict) ==
    [f \in SecretsCloud |->
        IF f \in DOMAIN secrets_dict /\ Coerces(f, secrets_dict[f])
        THEN Coerce(f, secrets_dict[f])
        ELSE default_values[f]]

\* Faulty variant: the file is applied to self.config as it is.
LoadedOnto(doc, loaded_dict, secrets_json) == from_dict(doc, loaded_dict)

\* Lines 103-120: what load_preset leaves in self.config (`doc`) for the
\* mapping read from the file.  The mapping goes into a fresh default
\* config (a KeyError of a migration ends the call here), the secrets of
\* that config are replaced by those of secrets.json when the file
\* exists, and every field of it is written into self.config.
Loaded(doc, loaded_dict, secrets_json) ==
    IF Raises(loaded_dict)
    THEN doc
    ELSE LET loaded_config == from_dict(default_values, loaded_dict)
             with_secrets ==
                 IF secrets_json = <<>>
                 THEN loaded_config
                 ELSE [f \in Fields |->
                         IF f \in SecretsCloud
                         THEN SecretsFromFile(secrets_json[1])[f]
                         ELSE loaded_config[f]]
         IN  from_dict(doc, to_dict(with_secrets))

\* Faulty variant: every file is taken with the version it carries.
LoadedDictAsStored(preset) == preset

\* Lines 100-110: the mapping load_preset reads from the file: the one of
\* a built-in preset is forced to the current version.
LoadedDict(preset) == IF preset \in Presets THEN BuiltIn(preset) ELSE preset

\* Lines 112 and 129: what load_preset answers: the exception of from_dict
\* goes to the caller, otherwise self.config.to_dict() is returned.
LoadReturns(preset) == IF Raises(LoadedDict(preset)) THEN "KeyError" ELSE "document"

\* Lines 83-129: load_preset(path), under the lock: the file is read into a
\* fresh default config, and that replaces every field of self.config.
load_preset(preset) ==
    /\ \E secrets_json \in SecretsFiles :
          documents' = [documents EXCEPT
             ![Canonical] = Loaded(@, LoadedDict(preset), secrets_json)]
    /\ UNCHANGED <<train_config, hpc, caught, tensorboard_subprocess, stopped_tensorboard>>
    /\ UNCHANGED vars

\* Faulty variant: the training thread is handed self.config itself.
get_config_for_training_shared(w) ==
    /\ train_config' = [train_config EXCEPT ![w] = Canonical]
    /\ UNCHANGED documents

\* Lines 192-205 of config_service.py: get_config_for_training().  to_dict()
\* under the lock, then a fresh default TrainConfig filled from that dict.
get_config_for_training(w) ==
    /\ documents' = [documents EXCEPT
          ![w] = from_dict(default_values, to_dict(documents[Canonical]))]
    /\ train_config' = [train_config EXCEPT ![w] = w]

\* The fields of the TrainConfig object run w holds.
ConfigOf(w) == documents[train_config[w]]

\* Line 171: the trainer will start a TensorBoard of its own.
StopsTensorboard(cfg) == cfg["tensorboard"] /\ ~cfg["tensorboard_always_on"]

\* Lines 422-435: _stop_always_on_tensorboard(), called for run w.
stop_always_on_tensorboard(w) ==
    /\ tensorboard_subprocess' = FALSE
    /\ stopped_tensorboard' =
         [stopped_tensorboard EXCEPT ![w] = tensorboard_subprocess]

\* Lines 136-214 of trainer_service.py: an accepted start_training() (a
\* rejected one returns at line 152 and changes nothing).  It passes the
\* check, takes the configuration for the run (line 167), stops the always-on
\* TensorBoard if the trainer will start its own (lines 169-172), sets the
\* status "running" and starts the thread.  Here the call is one step: what
\* two overlapping calls do to the status is the subject of the lifecycle
\* view above.
handoff_start_training(w) ==
    /\ nruns < MaxRuns
    /\ w = nruns + 1
    /\ ~StartRejects(status)
    /\ nruns' = w
    /\ get_config_for_training(w)
    /\ IF StopsTensorboard(documents'[train_config'[w]])
       THEN stop_always_on_tensorboard(w)
       ELSE UNCHANGED <<tensorboard_subprocess, stopped_tensorboard>>
    /\ set_status("running", NoError)
    /\ hpc' = [hpc EXCEPT ![w] = "setup"]
    /\ UNCHANGED caught
    /\ UNCHANGED <<training_commands, start_time, callvars, events>>
    /\ UNCHANGED <<wpc, error_caught, trainer_calls, received>>

\* Faulty variant: the whole document of the run is written back.
persist_everything(docs, w) ==
    [docs EXCEPT ![Canonical] = from_dict(@, to_dict(docs[train_config[w]]))]

\* Lines 231-236 and 242-247: if config.cloud.enabled, copy the run's
\* secrets.cloud into ConfigService.config, under its lock.
persist_cloud_secrets(docs, w) ==
    IF docs[train_config[w]]["cloud_enabled"]
    THEN [docs EXCEPT ![Canonical] =
            [f \in Fields |->
                IF f \in SecretsCloud
                THEN Coerce(f, docs[train_config[w]][f])
                ELSE @[f]]]
    ELSE docs

\* The trainer works on the run's own TrainConfig: with cloud training it
\* stores the session it opened in config.secrets.cloud.
TrainerWrites(docs, w, secret) ==
    IF docs[train_config[w]]["cloud_enabled"]
    THEN [docs EXCEPT ![train_config[w]]["secrets_cloud"] = secret]
    ELSE docs

\* Lines 227-238 and 240-250: trainer.start() returns or raises; the cloud
\* secrets are persisted on both paths.
handoff_training_thread_setup(w) ==
    /\ hpc[w] = "setup"
    /\ \E secret \in FieldValues("secrets_cloud") :
         documents' = persist_cloud_secrets(TrainerWrites(documents, w, secret), w)
    /\ \/ /\ hpc' = [hpc EXCEPT ![w] = "train"]
          /\ UNCHANGED caught
       \/ \E exc \in Exceptions :
            /\ caught' = [caught EXCEPT ![w] = exc]
            /\ hpc' = [hpc EXCEPT ![w] = "set_status"]
    /\ UNCHANGED <<train_config, tensorboard_subprocess, stopped_tensorboard>>
    /\ UNCHANGED vars

\* Lines 239-253: trainer.train() returns, or raises and the except block
\* persists the cloud secrets once more.
handoff_training_thread_train(w) ==
    /\ hpc[w] = "train"
    /\ \/ /\ hpc' = [hpc EXCEPT ![w] = "set_status"]
          /\ UNCHANGED <<documents, caught>>
       \/ \E exc \in Exceptions, secret \in FieldValues("secrets_cloud") :
            /\ documents' =
                 persist_cloud_secrets(TrainerWrites(documents, w, secret), w)
            /\ caught' = [caught EXCEPT ![w] = exc]
            /\ hpc' = [hpc EXCEPT ![w] = "set_status"]
    /\ UNCHANGED <<train_config, tensorboard_subprocess, stopped_tensorboard>>
    /\ UNCHANGED vars

\* Faulty variant: the text of the exception is passed on to the callers.
ErrorTextWithDetail(exc) == "Training failed: " \o exc

\* Line 272: the error message stored after a failure with exception `exc`.
ErrorText(exc) == FailedText

\* Line 281: if config.tensorboard_always_on.
RestartsTensorboard(cfg) == cfg["tensorboard_always_on"]

\* From here on the thread reads its TrainConfig no more: the object is as
\* good as gone.
Release(w) ==
    /\ documents' = [documents EXCEPT ![w] = default_values]
    /\ train_config' = [train_config EXCEPT ![w] = None]
    /\ stopped_tensorboard' = [stopped_tensorboard EXCEPT ![w] = FALSE]

\* Lines 270-281: the status update of the exiting thread; then, if its own
\* configuration asks for the always-on TensorBoard, the thread goes on to
\* restart it, and otherwise it ends.
handoff_training_thread_set_status(w) ==
    /\ hpc[w] = "set_status"
    /\ IF caught[w] # NoError
       THEN set_status("error", ErrorText(caught[w]))
       ELSE set_status("idle", NoError)
    /\ hpc' = [hpc EXCEPT
          ![w] = IF RestartsTensorboard(ConfigOf(w)) THEN "restart" ELSE "done"]
    /\ Release(w)
    /\ UNCHANGED <<caught, tensorboard_subprocess>>
    /\ UNCHANGED <<training_commands, start_time, callvars, runvars, events>>

\* Lines 282-283 and 394-399: _start_always_on_tensorboard() first stops a
\* live subprocess.
handoff_training_thread_restart(w) ==
    /\ hpc[w] = "restart"
    /\ tensorboard_subprocess' = FALSE
    /\ hpc' = [hpc EXCEPT ![w] = "launch"]
    /\ UNCHANGED <<documents, train_config, caught, stopped_tensorboard>>
    /\ UNCHANGED vars

\* Lines 401-420: the subprocess is launched; if Popen raises there is none.
\* Then the thread ends.
handoff_training_thread_launch(w) ==
    /\ hpc[w] = "launch"
    /\ tensorboard_subprocess' \in BOOLEAN
    /\ hpc' = [hpc EXCEPT ![w] = "done"]
    /\ UNCHANGED <<documents, train_config, caught, stopped_tensorboard>>
    /\ UNCHANGED vars

HandoffNext ==
    \/ (\E data \in Patches : update_config(data)) /\ UNCHANGED <<status_lock, bridgevars, backendvars>>
    \/ (\E preset \in Presets : load_preset(preset)) /\ UNCHANGED <<status_lock, bridgevars, backendvars>>
    \/ (\E w \in Runs : handoff_start_training(w)) /\ UNCHANGED <<status_lock, bridgevars, backendvars>>
    \/ (\E w \in Runs : handoff_training_thread_setup(w)) /\ UNCHANGED <<status_lock, bridgevars, backendvars>>
    \/ (\E w \in Runs : handoff_training_thread_train(w)) /\ UNCHANGED <<status_lock, bridgevars, backendvars>>
    \/ (\E w \in Runs : handoff_training_thread_set_status(w)) /\ UNCHANGED <<status_lock, bridgevars, backendvars>>
    \/ (\E w \in Runs : handoff_training_thread_restart(w)) /\ UNCHANGED <<status_lock, bridgevars, backendvars>>
    \/ (\E w \in Runs : handoff_training_thread_launch(w)) /\ UNCHANGED <<status_lock, bridgevars, backendvars>>

HandoffSpec == Init /\ [][HandoffNext]_<<vars, handoffvars, bridgevars, backendvars>>

\* ==================================================== configuration store
\* The requests that read, edit and validate ConfigService.config.

\* Lines 241-258: what validate_config collects for `data`: the exception
\* from_dict raised, and one printed line for each field that could not be
\* set.
Errors(data) ==
    (IF Raises(data) THEN {"KeyError"} ELSE {})
      \cup {f \in Fields \cap DOMAIN data :
                ~Raises(data) /\ ~Coerces(f, data[f])}

\* Lines 262-264: the reply of validate_config.
Result(data) == [valid |-> Errors(Stamped(data)) = {}, errors |-> Errors(Stamped(data))]

\* Faulty variant: the mapping is tried on ConfigService.config itself.
ValidatedInPlace(docs, data) ==
    [docs EXCEPT ![Canonical] = from_dict(@, Stamped(data))]

\* Lines 234-249: a copy of the mapping gets the current version unless it
\* carries one, and is applied to a fresh TrainConfig.default_values().
Validated(docs, data) ==
    [docs EXCEPT ![Throwaway] = from_dict(default_values, Stamped(data))]

\* Lines 211-264: validate_config(data); ConfigService.config is not
\* touched.
validate_config(data) ==
    /\ documents' = Validated(documents, data)
    /\ UNCHANGED <<train_config, hpc, caught, tensorboard_subprocess, stopped_tensorboard>>
    /\ UNCHANGED vars

\* GET /config followed by PUT /config with the body just read:
\* get_config_dict() returns to_dict(), update_config() applies it.
put_config_as_read == update_config(to_dict(documents[Canonical]))

\* The configuration view: clients edit, load, validate and write back the
\* document; no training is started and no websocket client connects.
ConfigNext ==
    \/ (\E data \in RawMappings : update_config(data)) /\ UNCHANGED <<bridgevars, backendvars>>
    \/ (\E preset \in Presets \cup UserPresets : load_preset(preset)) /\ UNCHANGED <<bridgevars, backendvars>>
    \/ (\E data \in RawMappings : validate_config(data)) /\ UNCHANGED <<bridgevars, backendvars>>
    \/ put_config_as_read /\ UNCHANGED <<bridgevars, backendvars>>

ConfigSpec == Init /\ [][ConfigNext]_<<vars, handoffvars, bridgevars, backendvars>>

\* ===================================================== websocket bridge
\* ws/training_ws.py: the registry of /ws/training clients (`manager`) and
\* broadcast_sync, through which the training thread hands a message to the
\* event loop.  Everything but broadcast_sync runs on the event loop, one
\* task at a time: a task runs from the head of the loop's queue until it
\* waits for the lock or for the network, and an `await` of the network
\* (accept, send_json, receive_text) is answered by the loop queueing the
\* task again.  The training thread runs beside the loop, so two fields a
\* task writes without waiting in between are written in two steps.
\* ws/connection_manager.py holds the same registry and bridge as classes.

\* asyncio.Lock.acquire as `async with self._lock` uses it: the task enters
\* at once when the lock is free and no task waits for it, and queues behind
\* the waiting tasks otherwise.
\* Faulty variant: no lock, every task enters.
EntersAtOnceUnlocked(lk) == TRUE

EntersAtOnce(lk) == ~lk.locked /\ lk.waiters = <<>>

\* A task that waited for the lock runs again once release() has woken it:
\* it is the first of the waiting tasks and leaves them as it takes the lock.
Waiters(woken) == IF woken THEN Tail(lock.waiters) ELSE lock.waiters

\* The task release() wakes, queued on the loop: the first waiting one.
Woken(waiters) == IF waiters = <<>> THEN <<>> ELSE <<Head(waiters)>>

\* The task at the head of the loop's queue waits for the lock.
WaitsForLock(t) ==
    /\ lock' = [lock EXCEPT !.waiters = Append(@, t)]
    /\ ready' = Tail(ready)

\* Faulty variant: remove() of an absent websocket takes the last one.
RemoveOrPop(conns, ws) ==
    IF \E j \in 1..Len(conns) : conns[j] = ws
    THEN SelectSeq(conns, LAMBDA c : c # ws)
    ELSE SubSeq(conns, 1, Len(conns) - 1)

\* list.remove under suppress(ValueError).
Remove(conns, ws) == SelectSeq(conns, LAMBDA c : c # ws)

\* manager.active_count
active_count == Len(connections)

\* The loop takes the next task of its queue: it is running and not in the
\* middle of a task.
LoopRuns == loop_running /\ \A s \in Subscribers : handler[s] # "registered"

\* A client opens /ws/training: the handler task starts, waits in
\* manager.connect for websocket.accept() and is ready to run again once
\* the accept completes.  Clients are numbered as their accepts complete.
training_ws(s) ==
    /\ loop_running
    /\ handler[s] = "none"
    /\ \A r \in Subscribers : r < s => handler[r] # "none"
    /\ handler' = [handler EXCEPT ![s] = "accepted"]
    /\ ready' = Append(ready, <<"handler", s>>)
    /\ UNCHANGED <<connections, lock, event_loop, loop_running, btask, inbox,
                   broken, emitted, raised>>

\* The handler runs on: manager.connect appends the websocket under the
\* lock and returns.
manager_connect(s) ==
    /\ LoopRuns
    /\ ready # <<>> /\ Head(ready) = <<"handler", s>>
    /\ handler[s] \in {"accepted", "connect_wait"}
    /\ LET woken == handler[s] = "connect_wait" IN
       IF woken \/ EntersAtOnce(lock)
       THEN /\ connections' = Append(connections, s)
            /\ lock' = [locked |-> FALSE, waiters |-> Waiters(woken)]
            /\ ready' = Tail(ready) \o Woken(Waiters(woken))
            /\ handler' = [handler EXCEPT ![s] = "registered"]
       ELSE /\ WaitsForLock(<<"handler", s>>)
            /\ handler' = [handler EXCEPT ![s] = "connect_wait"]
            /\ UNCHANGED connections
    /\ UNCHANGED <<event_loop, loop_running, btask, inbox, broken, emitted, raised>>

\* Faulty variant: every call stores what get_running_loop() gave.
CapturedAnew(ref, running) == running

\* _capture_event_loop: the reference after the call, `running` telling
\* whether get_running_loop() found a loop (it raises RuntimeError if not).
Captured(ref, running) == IF ~ref THEN running ELSE ref

\* Still in the same run of the handler task, _capture_event_loop() stores
\* the loop; the handler then waits in receive_text().
capture_event_loop(s) ==
    /\ handler[s] = "registered"
    /\ event_loop' = Captured(event_loop, loop_running)
    /\ handler' = [handler EXCEPT ![s] = "open"]
    /\ UNCHANGED <<connections, lock, loop_running, ready, btask, inbox, broken,
                   emitted, raised>>

\* The capture called on a thread that runs no event loop, as
\* test_capture_event_loop_outside_async calls it.
capture_event_loop_outside ==
    /\ event_loop' = Captured(event_loop, FALSE)
    /\ UNCHANGED <<connections, lock, loop_running, ready, btask, handler, inbox,
                   broken, emitted, raised>>

\* The client closes the socket: receive_text() raises WebSocketDisconnect
\* and the handler is ready to run its `finally`.
receive_text(s) ==
    /\ loop_running
    /\ handler[s] = "open"
    /\ handler' = [handler EXCEPT ![s] = "closing"]
    /\ ready' = Append(ready, <<"handler", s>>)
    /\ UNCHANGED <<connections, lock, event_loop, loop_running, btask, inbox,
                   broken, emitted, raised>>

\* manager.disconnect removes the websocket under the lock, if it is there.
manager_disconnect(s) ==
    /\ LoopRuns
    /\ ready # <<>> /\ Head(ready) = <<"handler", s>>
    /\ handler[s] \in {"closing", "disconnect_wait"}
    /\ LET woken == handler[s] = "disconnect_wait" IN
       IF woken \/ EntersAtOnce(lock)
       THEN /\ connections' = Remove(connections, s)
            /\ lock' = [locked |-> FALSE, waiters |-> Waiters(woken)]
            /\ ready' = Tail(ready) \o Woken(Waiters(woken))
            /\ handler' = [handler EXCEPT ![s] = "closed"]
       ELSE /\ WaitsForLock(<<"handler", s>>)
            /\ handler' = [handler EXCEPT ![s] = "disconnect_wait"]
            /\ UNCHANGED connections
    /\ UNCHANGED <<event_loop, loop_running, btask, inbox, broken, emitted, raised>>

\* The server shuts down: the loop stops between two tasks and runs nothing
\* any more, while the training thread may still be draining.  The tasks
\* the loop had not finished are cancelled; its queue and the waiters of
\* the lock, which nothing reads again, go with them.
shutdown ==
    /\ LoopRuns
    /\ loop_running' = FALSE
    /\ ready' = <<>>
    /\ lock' = [locked |-> FALSE, waiters |-> <<>>]
    /\ btask' = [e \in Events |->
                    IF btask[e].pc \in {"none", "done"} THEN btask[e] ELSE Cancelled]
    /\ UNCHANGED <<connections, event_loop, handler, inbox, broken, emitted, raised>>

\* Faulty variant: broadcast_sync without its first check.
SkipsNever(count) == FALSE

\* broadcast_sync returns at once when no client is registered.
Skips(count) == count = 0

\* Faulty variant: the loop is not asked whether it runs.
LoopAvailableUnchecked == event_loop

\* loop is not None and loop.is_running()
LoopAvailable == event_loop /\ loop_running

\* Faulty variant: with no loop the caller runs the broadcast itself and
\* sends to every registered websocket.
run_in_caller(e) ==
    /\ inbox' = [s \in Subscribers |->
                    IF \E j \in 1..Len(connections) : connections[j] = s
                    THEN Append(inbox[s], e) ELSE inbox[s]]
    /\ UNCHANGED <<btask, ready>>

\* The else branch of broadcast_sync: the message is dropped with a debug
\* log line.
drop(e) == UNCHANGED <<btask, ready, inbox>>

\* Faulty variant: the caller waits for the result of the future.
ReturnedAfterDelivery(e) == btask[e].pc \in {"none", "done"}

\* The call broadcast_sync(message e) has returned to the training thread:
\* nothing in it waits, the future is left to its done callback.
Returned(e) == TRUE

\* The training thread calls broadcast_sync(message e), its earlier call
\* having returned.  With no client the call returns, with a captured and
\* running loop it schedules manager.broadcast(message) on the loop, else it
\* drops the message.
broadcast_sync(e) ==
    /\ e = emitted + 1
    /\ emitted > 0 => Returned(emitted)
    /\ emitted' = e
    /\ IF Skips(active_count)
       THEN UNCHANGED <<btask, ready, inbox>>
       ELSE IF LoopAvailable
       THEN /\ btask' = [btask EXCEPT ![e].pc = "scheduled"]
            /\ ready' = Append(ready, <<"broadcast", e>>)
            /\ UNCHANGED inbox
       ELSE drop(e)
    /\ UNCHANGED <<connections, lock, event_loop, loop_running, handler, broken,
                   raised>>

\* Faulty variant: a send that raises ends the loop.
AfterRaiseAbort(j, n) == n

\* Where the loop over the connections goes on after the send to the j-th of
\* n connections raised: the exception is caught and the websocket noted.
AfterRaise(j, n) == j

\* Faulty variant: the stale websockets stay.
PruneNothing(conns, stale) == conns

\* The connections left once the stale ones are removed.
Prune(conns, stale) == SelectSeq(conns, LAMBDA c : c \notin stale)

\* Faulty variant: the failed sends of broadcast e are raised in the thread
\* that called broadcast_sync(message e).
SurfacedFromResult(e, stale) == IF stale = {} THEN {} ELSE {e}

\* The calls of broadcast_sync in whose thread a failure of broadcast e is
\* raised: none.  The exception of a send ends in `stale`, that of the task
\* in _broadcast_done_callback, which logs it.
Surfaced(e, stale) == {}

\* manager.broadcast, holding the lock with waiting tasks `waiters`, reaches
\* the j-th connection: it sends message e and waits for the send, or, past
\* the last connection, removes the stale websockets, releases the lock and
\* returns.  A send raises if the client has gone away without a close,
\* which it may have done since the last send to it; it is then gone for
\* good.
FanOut(e, j, waiters) ==
    IF j <= Len(connections)
    THEN LET ws == connections[j] IN
         /\ \E raises \in BOOLEAN :
              /\ broken[ws] => raises
              /\ IF raises
                 THEN /\ btask' = [btask EXCEPT ![e] =
                             [pc |-> "sending",
                              i |-> AfterRaise(j, Len(connections)),
                              stale |-> @.stale \cup {ws}]]
                      /\ broken' = [broken EXCEPT ![ws] = TRUE]
                      /\ UNCHANGED inbox
                 ELSE /\ btask' = [btask EXCEPT ![e].pc = "sending", ![e].i = j]
                      /\ inbox' = [inbox EXCEPT ![ws] = Append(@, e)]
                      /\ UNCHANGED broken
         /\ lock' = [locked |-> TRUE, waiters |-> waiters]
         /\ ready' = Tail(ready)
         /\ UNCHANGED <<connections, raised>>
    ELSE /\ connections' = Prune(connections, btask[e].stale)
         /\ lock' = [locked |-> FALSE, waiters |-> waiters]
         /\ ready' = Tail(ready) \o Woken(waiters)
         /\ btask' = [btask EXCEPT ![e] = Done]
         /\ raised' = raised \cup Surfaced(e, btask[e].stale)
         /\ UNCHANGED <<inbox, broken>>

\* The task of manager.broadcast(message e) runs: it takes the lock or waits
\* for it, and with the lock goes through the connections from where it was.
manager_broadcast(e) ==
    /\ LoopRuns
    /\ ready # <<>> /\ Head(ready) = <<"broadcast", e>>
    /\ btask[e].pc \in {"scheduled", "lock_wait", "sent"}
    /\ LET woken == btask[e].pc = "lock_wait" IN
       IF btask[e].pc = "sent"
       THEN FanOut(e, btask[e].i + 1, lock.waiters)
       ELSE IF woken \/ EntersAtOnce(lock)
       THEN FanOut(e, 1, Waiters(woken))
       ELSE /\ WaitsForLock(<<"broadcast", e>>)
            /\ btask' = [btask EXCEPT ![e].pc = "lock_wait"]
            /\ UNCHANGED <<connections, inbox, broken, raised>>
    /\ UNCHANGED <<event_loop, loop_running, handler, emitted>>

\* ws.send_json(message e) returns or raises: the task is ready to run again.
send_json(e) ==
    /\ loop_running
    /\ btask[e].pc = "sending"
    /\ btask' = [btask EXCEPT ![e].pc = "sent"]
    /\ ready' = Append(ready, <<"broadcast", e>>)
    /\ UNCHANGED <<connections, lock, event_loop, loop_running, handler, inbox,
                   broken, emitted, raised>>

\* The bridge view: the training thread emits its messages, clients come
\* and go, the event loop runs its tasks; the lifecycle and the
\* configuration are left as they are.
BridgeNext ==
    \/ (\E s \in Subscribers : training_ws(s)) /\ UNCHANGED <<vars, handoffvars, backendvars>>
    \/ (\E s \in Subscribers : manager_connect(s)) /\ UNCHANGED <<vars, handoffvars, backendvars>>
    \/ (\E s \in Subscribers : capture_event_loop(s)) /\ UNCHANGED <<vars, handoffvars, backendvars>>
    \/ capture_event_loop_outside /\ UNCHANGED <<vars, handoffvars, backendvars>>
    \/ (\E s \in Subscribers : receive_text(s)) /\ UNCHANGED <<vars, handoffvars, backendvars>>
    \/ (\E s \in Subscribers : manager_disconnect(s)) /\ UNCHANGED <<vars, handoffvars, backendvars>>
    \/ shutdown /\ UNCHANGED <<vars, handoffvars, backendvars>>
    \/ (\E e \in Events : broadcast_sync(e)) /\ UNCHANGED <<vars, handoffvars, backendvars>>
    \/ (\E e \in Events : manager_broadcast(e)) /\ UNCHANGED <<vars, handoffvars, backendvars>>
    \/ (\E e \in Events : send_json(e)) /\ UNCHANGED <<vars, handoffvars, backendvars>>

BridgeSpec == Init /\ [][BridgeNext]_<<vars, handoffvars, bridgevars, backendvars>>

\* ============================================================ singletons
\* SingletonMixin.get_instance, called by any thread on any service class.
\* Each step is one line of the method; the `with` block is entered at
\* line 16 and left after line 18.

\* Faulty variant: no second look inside the lock.
IsNoneUnchecked(inst) == TRUE

\* Line 17: `if cls._instance is None`, inside the lock.
IsNone(inst) == inst = NoInstance

\* Line 15: the first look, without the lock.
get_instance_check(t, cls) ==
    /\ gpc[t] = "none"
    /\ gcls' = [gcls EXCEPT ![t] = cls]
    /\ gpc' = [gpc EXCEPT ![t] = IF instances[cls] = NoInstance THEN "lock" ELSE "return"]
    /\ UNCHANGED <<instances, singleton_lock, constructed, got>>

\* Line 16: `with cls._singleton_lock` waits until the lock is free.
get_instance_lock(t) ==
    /\ gpc[t] = "lock"
    /\ singleton_lock[LockOf(gcls[t])] = None
    /\ singleton_lock' = [singleton_lock EXCEPT ![LockOf(gcls[t])] = t]
    /\ gpc' = [gpc EXCEPT ![t] = "construct"]
    /\ UNCHANGED <<instances, constructed, gcls, got>>

\* Lines 17-18: the second look, and `cls._instance = cls()`.
get_instance_construct(t) ==
    /\ gpc[t] = "construct"
    /\ IF IsNone(instances[gcls[t]])
       THEN /\ constructed' = [constructed EXCEPT ![gcls[t]] = @ + 1]
            /\ instances' = [instances EXCEPT
                                ![gcls[t]] = New(gcls[t], constructed[gcls[t]] + 1)]
       ELSE UNCHANGED <<instances, constructed>>
    /\ gpc' = [gpc EXCEPT ![t] = "release"]
    /\ UNCHANGED <<singleton_lock, gcls, got>>

\* The end of the `with` block releases the lock.
get_instance_release(t) ==
    /\ gpc[t] = "release"
    /\ singleton_lock' = [singleton_lock EXCEPT ![LockOf(gcls[t])] = None]
    /\ gpc' = [gpc EXCEPT ![t] = "return"]
    /\ UNCHANGED <<instances, constructed, gcls, got>>

\* Line 19: `return cls._instance`.
get_instance(t) ==
    /\ gpc[t] = "return"
    /\ got' = [got EXCEPT ![t] = instances[gcls[t]]]
    /\ gpc' = [gpc EXCEPT ![t] = "none"]
    /\ UNCHANGED <<instances, singleton_lock, constructed, gcls>>

\* The singleton view: threads ask for the instance of a class, each at
\* its own pace; everything else is left as it is.
SingletonNext ==
    \/ (\E t \in Calls, cls \in ServiceClasses : get_instance_check(t, cls))
            /\ UNCHANGED <<vars, handoffvars, bridgevars, toolvars, validatevars, streamvars>>
    \/ (\E t \in Calls : get_instance_lock(t)) /\ UNCHANGED <<vars, handoffvars, bridgevars, toolvars, validatevars, streamvars>>
    \/ (\E t \in Calls : get_instance_construct(t)) /\ UNCHANGED <<vars, handoffvars, bridgevars, toolvars, validatevars, streamvars>>
    \/ (\E t \in Calls : get_instance_release(t)) /\ UNCHANGED <<vars, handoffvars, bridgevars, toolvars, validatevars, streamvars>>
    \/ (\E t \in Calls : get_instance(t)) /\ UNCHANGED <<vars, handoffvars, bridgevars, toolvars, validatevars, streamvars>>

SingletonSpec == Init /\ [][SingletonNext]_<<vars, handoffvars, bridgevars, backendvars>>

\* ================================================================= tools
\* ToolService: generate_captions and generate_masks are the same method
\* but for the thread function they hand to the thread; the two thread
\* functions are the same but for the model they load and run. self._lock
\* is held only inside the `with` blocks, each of which is one step here.

\* The tool threads that exist: started and not yet returned.
ToolThreads == {k \in Runs : tpc[k] \notin {"none", "done"}}

\* Lines 118 / 185: `if self._status == "running"`.
AlreadyRunning(t) == t.status = "running"

ToolReturn(c, method, ok) ==
    /\ tool_response' = [op |-> method, ok |-> ok]
    /\ tcpc' = [tcpc EXCEPT ![c] = "done"]

\* Lines 117-119 / 184-186: the check, inside the lock.
generate_check(c) ==
    /\ tcpc[c] = "none"
    /\ IF AlreadyRunning(tool)
       THEN /\ ToolReturn(c, "generate", FALSE)
            /\ UNCHANGED <<ttask, ntasks>>
       ELSE /\ ntasks < MaxRuns
            /\ ntasks' = ntasks + 1
            /\ ttask' = [ttask EXCEPT ![c] = ntasks + 1]
            /\ tcpc' = [tcpc EXCEPT ![c] = "generate_running"]
            /\ UNCHANGED tool_response
    /\ UNCHANGED <<tool, tpc>>

\* Lines 121-125 / 188-192: task id, cancel flag, status and progress.
generate_running(c) ==
    /\ tcpc[c] = "generate_running"
    /\ tool' = [tool EXCEPT !.task_id = ttask[c], !.cancel_flag = FALSE,
                            !.status = "running", !.error = NoError,
                            !.progress = 0, !.max_progress = 0]
    /\ tcpc' = [tcpc EXCEPT ![c] = "generate_spawn"]
    /\ UNCHANGED <<ttask, ntasks, tpc, tool_response>>

\* Lines 127-136 / 194-203: create and start the thread, return.
generate_spawn(c) ==
    /\ tcpc[c] = "generate_spawn"
    /\ tool' = [tool EXCEPT !.thread = ttask[c]]
    /\ tpc' = [tpc EXCEPT ![ttask[c]] = "load"]
    /\ ToolReturn(c, "generate", TRUE)
    /\ UNCHANGED <<ttask, ntasks>>

\* Lines 247-255: cancel, all of it inside the lock.
cancel(c) ==
    /\ tcpc[c] = "none"
    /\ IF tool.status # "running"
       THEN /\ ToolReturn(c, "cancel", FALSE)
            /\ UNCHANGED tool
       ELSE /\ tool' = [tool EXCEPT !.cancel_flag = TRUE, !.status = "idle",
                                    !.error = NoError]
            /\ ToolReturn(c, "cancel", TRUE)
    /\ UNCHANGED <<ttask, ntasks, tpc>>

\* Lines 141-144 / 208-211: load the model; an unknown model ends the run.
tool_thread_load(k) ==
    /\ tpc[k] = "load"
    /\ \/ /\ tool' = [tool EXCEPT !.status = "error", !.error = "Unknown model"]
          /\ tpc' = [tpc EXCEPT ![k] = "finally"]
       \/ /\ tpc' = [tpc EXCEPT ![k] = "work"]
          /\ UNCHANGED tool
    /\ UNCHANGED <<tcpc, ttask, ntasks, tool_response>>

\* Lines 261-264: the model reports a file done, on the tool thread.
progress_callback(k) ==
    /\ tpc[k] = "work"
    /\ IF tool.cancel_flag
       THEN /\ tpc' = [tpc EXCEPT ![k] = "interrupted"]
            /\ UNCHANGED tool
       ELSE /\ tool' = [tool EXCEPT !.progress = 1, !.max_progress = 1]
            /\ UNCHANGED tpc
    /\ UNCHANGED <<tcpc, ttask, ntasks, tool_response>>

\* Lines 148-161, 166-168 / 216-231, 236-238: the model is through with
\* the folder, or raised.
tool_thread_work(k) ==
    /\ tpc[k] = "work"
    /\ \E outcome \in {"returned", "raised"} :
          tool' = IF outcome = "raised"
                  THEN [tool EXCEPT !.status = "error", !.error = "failed"]
                  ELSE IF tool.status = "running"
                       THEN [tool EXCEPT !.status = "completed"]
                       ELSE tool
    /\ tpc' = [tpc EXCEPT ![k] = "finally"]
    /\ UNCHANGED <<tcpc, ttask, ntasks, tool_response>>

\* Lines 163-165 / 233-235: `except InterruptedError`.
tool_thread_interrupted(k) ==
    /\ tpc[k] = "interrupted"
    /\ tool' = [tool EXCEPT !.status = "idle", !.error = NoError]
    /\ tpc' = [tpc EXCEPT ![k] = "finally"]
    /\ UNCHANGED <<tcpc, ttask, ntasks, tool_response>>

\* Lines 169-171 / 239-241: `finally`, then the thread function returns.
tool_thread_finally(k) ==
    /\ tpc[k] = "finally"
    /\ tool' = [tool EXCEPT !.thread = None]
    /\ tpc' = [tpc EXCEPT ![k] = "done"]
    /\ UNCHANGED <<tcpc, ttask, ntasks, tool_response>>

\* The tool view: API calls and tool threads, each at its own pace.
ToolNext ==
    \/ (\E c \in Calls : generate_check(c)) /\ UNCHANGED <<vars, handoffvars, bridgevars, singletonvars, validatevars, streamvars>>
    \/ (\E c \in Calls : generate_running(c)) /\ UNCHANGED <<vars, handoffvars, bridgevars, singletonvars, validatevars, streamvars>>
    \/ (\E c \in Calls : generate_spawn(c)) /\ UNCHANGED <<vars, handoffvars, bridgevars, singletonvars, validatevars, streamvars>>
    \/ (\E c \in Calls : cancel(c)) /\ UNCHANGED <<vars, handoffvars, bridgevars, singletonvars, validatevars, streamvars>>
    \/ (\E k \in Runs : tool_thread_load(k)) /\ UNCHANGED <<vars, handoffvars, bridgevars, singletonvars, validatevars, streamvars>>
    \/ (\E k \in Runs : progress_callback(k)) /\ UNCHANGED <<vars, handoffvars, bridgevars, singletonvars, validatevars, streamvars>>
    \/ (\E k \in Runs : tool_thread_work(k)) /\ UNCHANGED <<vars, handoffvars, bridgevars, singletonvars, validatevars, streamvars>>
    \/ (\E k \in Runs : tool_thread_interrupted(k)) /\ UNCHANGED <<vars, handoffvars, bridgevars, singletonvars, validatevars, streamvars>>
    \/ (\E k \in Runs : tool_thread_finally(k)) /\ UNCHANGED <<vars, handoffvars, bridgevars, singletonvars, validatevars, streamvars>>

ToolSpec == Init /\ [][ToolNext]_<<vars, handoffvars, bridgevars, backendvars>>

\* ==================================================== validation capture
\* validate_config as the threads of the process see it: the redirection
\* of sys.stdout, the trial from_dict, the restoring, and the reply, with
\* the training thread printing whenever it is scheduled.

\* The mappings validated here: one field with each value a request can
\* give it, and a mapping whose older version makes a migration raise.
ValidatedMappings ==
    {d \in RawMappings :
        \/ DOMAIN d = {MigrationKey}
        \/ DOMAIN d = {"no_such_field", "__version"} /\ d["__version"] = MigrationKeyStep}

\* print(...): the text goes to whatever sys.stdout is at that moment.
Written(stream, lines) ==
    IF stream = ProcessStream
    THEN captured
    ELSE [captured EXCEPT ![stream] = @ \cup lines]

\* Lines 233-247: the stamped copy, the lock, the StringIO, the redirection.
validate_config_redirect(c, data) ==
    /\ vpc[c] = "none"
    /\ validate_lock = None
    /\ validate_lock' = c
    /\ vdata' = [vdata EXCEPT ![c] = data]
    /\ captured' = [captured EXCEPT ![c] = {}]
    /\ verrors' = [verrors EXCEPT ![c] = {}]
    /\ sys_stdout' = c
    /\ vpc' = [vpc EXCEPT ![c] = "from_dict"]
    /\ UNCHANGED <<vresult, nprints>>

\* Lines 248-251: from_dict on fresh defaults prints a line for each field
\* it could not set; an exception it raises is appended to `errors`.
validate_config_from_dict(c) ==
    /\ vpc[c] = "from_dict"
    /\ LET data == Stamped(vdata[c])
       IN  /\ verrors' = [verrors EXCEPT ![c] = Errors(data) \ Fields]
           /\ captured' = Written(sys_stdout, Errors(data) \cap Fields)
    /\ vpc' = [vpc EXCEPT ![c] = "restore"]
    /\ UNCHANGED <<sys_stdout, validate_lock, vdata, vresult, nprints>>

\* Lines 252-253: `finally: sys.stdout = old_stdout`.  Only validate_config
\* assigns sys.stdout, inside the lock, so what it saved is the process
\* stream.
validate_config_restore(c) ==
    /\ vpc[c] = "restore"
    /\ sys_stdout' = ProcessStream
    /\ vpc' = [vpc EXCEPT ![c] = "return"]
    /\ UNCHANGED <<validate_lock, vdata, captured, verrors, vresult, nprints>>

\* Lines 255-264: every captured line becomes an error; the reply.
validate_config_return(c) ==
    /\ vpc[c] = "return"
    /\ LET errors == verrors[c] \cup captured[c]
       IN  vresult' = [vresult EXCEPT ![c] = [valid |-> errors = {}, errors |-> errors]]
    /\ validate_lock' = None
    /\ vpc' = [vpc EXCEPT ![c] = "done"]
    /\ UNCHANGED <<sys_stdout, vdata, captured, verrors, nprints>>

\* trainer.train() and the from_dict of the secrets hand-back print on the
\* training thread.
training_thread_print(w) ==
    /\ nprints < MaxEvents
    /\ nprints' = nprints + 1
    /\ captured' = Written(sys_stdout, {"training output"})
    /\ UNCHANGED <<sys_stdout, validate_lock, vpc, vdata, verrors, vresult>>

\* The validation view: clients validate mappings while a run prints.
ValidateNext ==
    \/ (\E c \in Calls, data \in ValidatedMappings : validate_config_redirect(c, data))
            /\ UNCHANGED <<vars, handoffvars, bridgevars, singletonvars, toolvars, streamvars>>
    \/ (\E c \in Calls : validate_config_from_dict(c)) /\ UNCHANGED <<vars, handoffvars, bridgevars, singletonvars, toolvars, streamvars>>
    \/ (\E c \in Calls : validate_config_restore(c)) /\ UNCHANGED <<vars, handoffvars, bridgevars, singletonvars, toolvars, streamvars>>
    \/ (\E c \in Calls : validate_config_return(c)) /\ UNCHANGED <<vars, handoffvars, bridgevars, singletonvars, toolvars, streamvars>>
    \/ (\E w \in Runs : training_thread_print(w)) /\ UNCHANGED <<vars, handoffvars, bridgevars, singletonvars, toolvars, streamvars>>

ValidateSpec == Init /\ [][ValidateNext]_<<vars, handoffvars, bridgevars, backendvars>>

\* ============================================================ log stream
\* LogService and the /ws/terminal endpoint.  Threads append lines
\* (_TeeWriter.write, _WebSocketLogHandler.emit); the event loop runs the
\* endpoint's handlers and the scheduled broadcasts, one step from an
\* await to the next.  Every send succeeds here.

\* The event loop can take up a coroutine: no handler is between two
\* awaits.  From the registration at line 130 to the first send at line
\* 144 a handler does not await.
LoopIdle == \A s \in Subscribers : log_handler[s] \notin {"wire", "history"}

\* deque(maxlen=...): appending to a full buffer drops the oldest line.
Appended(buffer, line) ==
    IF Len(buffer) < maxlen
    THEN Append(buffer, line)
    ELSE Append(Tail(buffer), line)

\* Lines 148-150 of log_service.py: the entry, and the append inside the lock.
log_append(t) ==
    /\ apc[t] = "none"
    /\ nlines < MaxLines
    /\ nlines' = nlines + 1
    /\ aline' = [aline EXCEPT ![t] = nlines + 1]
    /\ log_buffer' = Appended(log_buffer, nlines + 1)
    /\ apc' = [apc EXCEPT ![t] = "broadcast"]
    /\ UNCHANGED <<ws_broadcast, log_event_loop, log_connections, log_tasks,
                   log_handler, log_history, log_inbox>>

\* Lines 152-154, and broadcast_sync (terminal_ws.py lines 92-102): nothing
\* without the callback, a client or the loop; else manager.broadcast is
\* scheduled on the loop.
log_broadcast_sync(t) ==
    /\ apc[t] = "broadcast"
    /\ log_tasks' = IF ws_broadcast /\ Len(log_connections) > 0 /\ log_event_loop
                    THEN Append(log_tasks, aline[t])
                    ELSE log_tasks
    /\ apc' = [apc EXCEPT ![t] = "none"]
    /\ UNCHANGED <<log_buffer, nlines, aline, ws_broadcast, log_event_loop,
                   log_connections, log_handler, log_history, log_inbox>>

\* manager.broadcast (lines 46-61): the oldest scheduled coroutine sends
\* its line to every registered client.
log_manager_broadcast ==
    /\ LoopIdle
    /\ log_tasks # <<>>
    /\ log_inbox' = [s \in Subscribers |->
                        IF \E i \in 1..Len(log_connections) : log_connections[i] = s
                        THEN Append(log_inbox[s], Head(log_tasks))
                        ELSE log_inbox[s]]
    /\ log_tasks' = Tail(log_tasks)
    /\ UNCHANGED <<log_buffer, nlines, apc, aline, ws_broadcast, log_event_loop,
                   log_connections, log_handler, log_history>>

\* Line 130: manager.connect accepts the socket and registers it.
terminal_ws(s) ==
    /\ LoopIdle
    /\ log_handler[s] = "none"
    /\ log_connections' = Append(log_connections, s)
    /\ log_handler' = [log_handler EXCEPT ![s] = "wire"]
    /\ UNCHANGED <<log_buffer, nlines, apc, aline, ws_broadcast, log_event_loop,
                   log_tasks, log_history, log_inbox>>

\* Lines 131-138: the loop is captured, the callback is handed to LogService.
terminal_ws_wire(s) ==
    /\ log_handler[s] = "wire"
    /\ log_event_loop' = TRUE
    /\ ws_broadcast' = TRUE
    /\ log_handler' = [log_handler EXCEPT ![s] = "history"]
    /\ UNCHANGED <<log_buffer, nlines, apc, aline, log_connections, log_tasks,
                   log_history, log_inbox>>

\* Line 141: get_history() copies the buffer inside the lock.
get_history(s) ==
    /\ log_handler[s] = "history"
    /\ log_history' = [log_history EXCEPT ![s] = log_buffer]
    /\ log_handler' = [log_handler EXCEPT ![s] = "replay"]
    /\ UNCHANGED <<log_buffer, nlines, apc, aline, ws_broadcast, log_event_loop,
                   log_connections, log_tasks, log_inbox>>

\* Lines 142-148: one entry of the copy is sent; after the last one the
\* handler waits in receive_text.
terminal_ws_replay(s) ==
    /\ LoopIdle
    /\ log_handler[s] = "replay"
    /\ IF log_history[s] = <<>>
       THEN /\ log_handler' = [log_handler EXCEPT ![s] = "receive"]
            /\ UNCHANGED <<log_history, log_inbox>>
       ELSE /\ log_inbox' = [log_inbox EXCEPT ![s] = Append(@, Head(log_history[s]))]
            /\ log_history' = [log_history EXCEPT ![s] = Tail(@)]
            /\ UNCHANGED log_handler
    /\ UNCHANGED <<log_buffer, nlines, apc, aline, ws_broadcast, log_event_loop,
                   log_connections, log_tasks>>

\* Lines 150-153: the client disconnects, manager.disconnect removes it.
terminal_ws_disconnect(s) ==
    /\ LoopIdle
    /\ log_handler[s] = "receive"
    /\ log_connections' = SelectSeq(log_connections, LAMBDA x : x # s)
    /\ log_handler' = [log_handler EXCEPT ![s] = "closed"]
    /\ UNCHANGED <<log_buffer, nlines, apc, aline, ws_broadcast, log_event_loop,
                   log_tasks, log_history, log_inbox>>

\* The log view: threads write lines, clients open the terminal stream.
StreamNext ==
    \/ (\E t \in Runs : log_append(t)) /\ UNCHANGED <<vars, handoffvars, bridgevars, singletonvars, toolvars, validatevars>>
    \/ (\E t \in Runs : log_broadcast_sync(t)) /\ UNCHANGED <<vars, handoffvars, bridgevars, singletonvars, toolvars, validatevars>>
    \/ log_manager_broadcast /\ UNCHANGED <<vars, handoffvars, bridgevars, singletonvars, toolvars, validatevars>>
    \/ (\E s \in Subscribers : terminal_ws(s)) /\ UNCHANGED <<vars, handoffvars, bridgevars, singletonvars, toolvars, validatevars>>
    \/ (\E s \in Subscribers : terminal_ws_wire(s)) /\ UNCHANGED <<vars, handoffvars, bridgevars, singletonvars, toolvars, validatevars>>
    \/ (\E s \in Subscribers : get_history(s)) /\ UNCHANGED <<vars, handoffvars, bridgevars, singletonvars, toolvars, validatevars>>
    \/ (\E s \in Subscribers : terminal_ws_replay(s)) /\ UNCHANGED <<vars, handoffvars, bridgevars, singletonvars, toolvars, validatevars>>
    \/ (\E s \in Subscribers : terminal_ws_disconnect(s)) /\ UNCHANGED <<vars, handoffvars, bridgevars, singletonvars, toolvars, validatevars>>

StreamSpec == Init /\ [][StreamNext]_<<vars, handoffvars, bridgevars, backendvars>>

\* ======================================================== observations
\* The worker threads that exist: spawned and not yet finished.
Workers == {w \in Runs : wpc[w] \notin {"none", "done"}}

\* This step is a new call of `method` (it returns at once or goes on).
Called(method) ==
    /\ ncalls' = ncalls + 1
    /\ \/ op'[ncalls'] = method
       \/ op'[ncalls'] = "none" /\ response'.op = method

\* This step is a new call that returned `reply` at once.
Replied(method, reply) ==
    /\ op'[ncalls'] = "none"
    /\ cpc'[ncalls'] = "none"
    /\ response' = [op |-> method] @@ reply

\* ------------------------------------------------------------------ C1
\* C1: in every reachable state at most one worker thread (and so at most
\* one command channel in use by a worker) exists.
C1_AtMostOneWorker == Cardinality(Workers) <= 1

\* ------------------------------------------------------------------ C2
\* C2: start() called while the status is "running" returns a conflict
\* result, creates and spawns no worker, and leaves the status, the error
\* message, the start time and the command channel unchanged.
C2_StartWhileRunningConflicts ==
    [][(status = "running" /\ Called("start")) =>
          /\ Replied("start", Conflict("Training is already running"))
          /\ UNCHANGED <<service, crun, runvars, events>>]_vars

C2_Witness ==
    /\ response.op = "start"
    /\ response.error = "Training is already running"
    /\ status = "running"
    /\ Cardinality(Workers) = 1

\* ------------------------------------------------------------------ C3
\* C3 as stated: start() called in any status other than "idle" returns a
\* conflict result, spawns no worker and does not change the state.
C3_StartOnlyFromIdle ==
    [][(status # "idle" /\ Called("start")) =>
          /\ response'.op = "start" /\ response'.result = "conflict"
          /\ UNCHANGED <<service, crun, runvars, events>>]_vars

\* C3 amended: start() is accepted from "idle" and from "error"; called in
\* "running" or "stopping" it returns a conflict result that names the
\* status, spawns no worker and does not change the state.
C3_StartRejectedWhileActive ==
    [][Called("start") =>
          IF status \in {"running", "stopping"}
          THEN /\ Replied("start", Conflict(AlreadyActive(status)))
               /\ UNCHANGED <<service, crun, runvars, events>>
          ELSE /\ status \in {"idle", "error"}
               /\ cpc'[ncalls'] = "start_commands"
               /\ nruns' = nruns + 1
               /\ UNCHANGED <<service, wpc>>]_vars

C3_Witness ==
    /\ response.op = "start"
    /\ response.error = "Training is already stopping"
    /\ status = "stopping"

\* ------------------------------------------------------------------ C4
\* C4: stop() called in any status other than "running" returns a conflict
\* result, leaves status, error message, start time and command channel
\* unchanged, emits no event and sends no command.
C4_StopOnlyWhenRunning ==
    [][(status # "running" /\ Called("stop")) =>
          /\ Replied("stop", Conflict(NotRunning))
          /\ UNCHANGED <<service, crun, runvars, events>>]_vars

\* The third call, a stop(), was refused while the second, an accepted
\* stop(), had put the status to "stopping".
C4_Witness ==
    /\ ncalls = 3
    /\ cpc[2] = "stop_send"
    /\ response.op = "stop"
    /\ response.result = "conflict"
    /\ status = "stopping"

\* ------------------------------------------------------------------ C5
\* The "Stopping..." event is handed to the broadcast callback in this step.
EmitsStopping ==
    events' = events (+) SetToBag({[type |-> "status", text |-> "Stopping..."]})

\* An accepted stop() is accepted from "running" and sets "stopping".
StopAcceptance ==
    \A c \in Calls :
        (cpc[c] = "none" /\ cpc'[c] = "stop_send") =>
            /\ status = "running"
            /\ status' = "stopping"
            /\ UNCHANGED <<training_commands, start_time, runvars, events>>

\* C5 as stated: an accepted stop() sets the status to "stopping", emits a
\* Status event, sends exactly one Stop command through the command channel
\* and returns ok.
C5_StopSendsExactlyOne ==
    [][/\ StopAcceptance
       /\ \A c \in Calls :
            (cpc[c] = "stop_send" /\ cpc'[c] = "none") =>
                /\ EmitsStopping
                /\ \E w \in Runs :
                     received' = [received EXCEPT ![w]["stop"] = @ + 1]
                /\ response' = [op |-> "stop"] @@ Ok]_vars

\* C5 amended: an accepted stop() sets the status to "stopping", emits a
\* Status event and then sends at most one Stop command: exactly one, to the
\* channel the handle names when stop() reads it, and none when the worker
\* has already cleared the handle; it returns ok without waiting.
C5_StopSendsAtMostOne ==
    [][/\ StopAcceptance
       /\ \A c \in Calls :
            (cpc[c] = "stop_send" /\ cpc'[c] = "none") =>
                /\ EmitsStopping
                /\ IF training_commands # None
                   THEN received' =
                          [received EXCEPT ![training_commands]["stop"] = @ + 1]
                   ELSE received' = received
                /\ response' = [op |-> "stop"] @@ Ok
                /\ UNCHANGED <<service, wpc, error_caught, trainer_calls>>]_vars

\* A stop() has returned ok after forwarding its Stop to run 1, which is
\* still training.
C5_Witness ==
    /\ response.op = "stop"
    /\ response.result = "ok"
    /\ status = "stopping"
    /\ received[1]["stop"] = 1
    /\ wpc[1] = "train"

\* ------------------------------------------------------------------ C6
\* Nothing is left that must still happen: no call is under way, and every
\* worker has finished or is training without having been sent a Stop.
Settled ==
    /\ \A c \in Calls : cpc[c] = "none"
    /\ \A w \in Runs :
         \/ wpc[w] \in {"none", "done"}
         \/ wpc[w] = "train" /\ received[w]["stop"] = 0

\* The latest call to return is an accepted stop(): every start() accepted
\* so far had returned before it.
StopReturnedLast == response.op = "stop" /\ response.result = "ok"
NoRunFailed == \A w \in Runs : ~error_caught[w]

\* C6: after start() was accepted and then stop(), with no later call and
\* no failing run(): once the stop() has returned and every worker that was
\* sent the Stop has exited, the state is "idle" with no start time and no
\* error message (and, nothing being left to run, it stays so).
C6_HappyPathSettlesIdle ==
    (Settled /\ StopReturnedLast /\ NoRunFailed) =>
        /\ status = "idle"
        /\ start_time = None
        /\ error_message = NoError

\* ------------------------------------------------------------------ C7
\* C7: when setup() or run() of the latest accepted run raised, then once
\* every worker thread has exited and every call has returned, status()
\* reports "error" with an error message and no start time.
C7_FailedRunReportsError ==
    (/\ nruns >= 1
     /\ error_caught[nruns]
     /\ \A w \in 1..nruns : wpc[w] = "done"
     /\ \A c \in Calls : cpc[c] = "none")
    => /\ status = "error"
       /\ error_message # NoError
       /\ start_time = None

\* ------------------------------------------------------------------ C8
EndCalls(w) ==
    Cardinality({i \in 1..Len(trainer_calls[w]) : trainer_calls[w][i] = "end"})

ClosingEvents ==
    CopiesIn([type |-> "status", text |-> "Stopped"], events)
    + CopiesIn([type |-> "status", text |-> "Error: check the console for details"],
               events)

\* C8: on every exit path of the worker thread body trainer.end() is called
\* exactly once (never before setup() or run() is over), and whatever end()
\* does, the thread goes on to its final status update: every finished
\* worker has made it.
C8_TeardownExactlyOnce ==
    /\ \A w \in Runs :
         EndCalls(w) = IF wpc[w] \in {"none", "setup", "train"} THEN 0 ELSE 1
    /\ ClosingEvents = Cardinality({w \in Runs : wpc[w] \in {"clear_start_time", "done"}})

\* One run ended after setup() raised, another after run() returned.
C8_Witness ==
    \E v, w \in Runs :
        /\ wpc[v] = "done" /\ trainer_calls[v] = <<"start", "end">>
        /\ wpc[w] = "done" /\ trainer_calls[w] = <<"start", "train", "end">>
        /\ ~error_caught[w]

SetupReturned(w) ==
    \/ wpc[w] = "train"
    \/ Len(trainer_calls[w]) >= 2 /\ trainer_calls[w][2] = "train"

CommandKind(method) ==
    CASE method = "sample_now" -> "sample_default"
      [] method = "sample_custom" -> "sample_custom"
      [] method = "backup_now" -> "backup"
      [] method = "save_now" -> "save"

\* C10: sample_now, sample_custom, backup_now and save_now return in the
\* step that calls them and never raise: with no command channel, a conflict
\* result and nothing changes; with a channel, exactly one command of the
\* method's kind goes to it and the result is ok, whether or not delivering
\* it raised; the lifecycle state is unchanged either way.
C10_CommandsFireAndForget ==
    [][\A method \in {"sample_now", "sample_custom", "backup_now", "save_now"} :
         Called(method) =>
            /\ UNCHANGED <<service, crun, nruns, wpc, error_caught, trainer_calls, events>>
            /\ IF training_commands = None
               THEN /\ Replied(method, Conflict(NotRunning))
                    /\ received' = received
               ELSE /\ Replied(method, Ok)
                    /\ received' = [received EXCEPT
                          ![training_commands][CommandKind(method)] = @ + 1]]_vars

\* A custom sample was forwarded to run 1 while it trains.
C10_Witness ==
    /\ response.op = "sample_custom"
    /\ response.result = "ok"
    /\ received[1]["sample_custom"] = 1
    /\ wpc[1] = "train"

\* ----------------------------------------------------------------- C11
\* C11 as stated: in every reachable state a non-null command channel
\* implies the status "running".
C11_ChannelOnlyWhileRunning == training_commands # None => status = "running"

\* C11 amended: the channel exists from the moment start() publishes it
\* (line 200, before "running" is set) until the worker drops it on its way
\* out (line 259, before its final status update), whatever the status is
\* meanwhile: a non-null handle always names a run that its start() has
\* published and not yet spawned, or whose worker has not yet dropped it.
C11_ChannelNamesLiveRun ==
    training_commands # None =>
        \/ wpc[training_commands] \in {"setup", "train", "cleanup"}
        \/ \E c \in Calls :
             /\ crun[c] = training_commands
             /\ cpc[c] \in {"start_status", "start_spawn"}

\* While the status is "stopping" the channel of run 1 is still there, and a
\* sample_now() was forwarded to it.
C11_Witness ==
    /\ status = "stopping"
    /\ training_commands = 1
    /\ wpc[1] = "train"
    /\ response.op = "sample_now"
    /\ response.result = "ok"
    /\ received[1]["sample_default"] = 1

\* ----------------------------------------------------------------- C14
\* The messages of envelope type "error" in a bag of messages.
ErrorEvents(b) == {e \in BagToSet(b) : e.type = "error"}

\* C14: when the worker's final status update follows an exception caught
\* from setup() or run(), it sets the status "error" and hands a message of
\* type "error" to the subscribers; when no exception was caught it sets
\* "idle" and hands over no message of type "error".
C14_FailureEmitsErrorEvent ==
    [][\A w \in Runs :
         (wpc[w] = "set_status" /\ wpc'[w] = "clear_start_time") =>
            IF error_caught[w]
            THEN /\ status' = "error"
                 /\ \E e \in ErrorEvents(events') :
                      CopiesIn(e, events') = CopiesIn(e, events) + 1
            ELSE /\ status' = "idle"
                 /\ \A e \in ErrorEvents(events') :
                      CopiesIn(e, events') = CopiesIn(e, events)]_vars

\* ----------------------------------------------------------------- C12
\* This step is an edit of the canonical configuration (update_config or
\* load_preset): no run moves.
ConfigEdit == UNCHANGED <<hpc, nruns>>

\* C12: the configuration start() hands to the worker is an independent
\* snapshot: no update_config or load_preset applied to ConfigService.config
\* after the snapshot was taken changes any field of the TrainConfig a run
\* holds.
C12_SnapshotIndependent ==
    [][ConfigEdit =>
          \A w \in Runs :
              train_config[w] # None =>
                  /\ train_config'[w] = train_config[w]
                  /\ documents'[train_config[w]] = documents[train_config[w]]
      ]_<<vars, handoffvars>>

\* Run 1 is training on a configuration that the canonical document no
\* longer agrees with in a field only an edit can change.
C12_Witness ==
    /\ hpc[1] = "train"
    /\ train_config[1] = 1
    /\ documents[Canonical]["tensorboard"] # documents[1]["tensorboard"]

\* ----------------------------------------------------------------- C13
\* This step is taken by the thread of run w.
WorkerStep(w) ==
    /\ hpc[w] \in {"setup", "train", "set_status", "restart", "launch"}
    /\ hpc'[w] # hpc[w]

\* C13 as stated: after start(), no step of a worker thread changes the
\* canonical document, on the success path or on the failure path.
C13_WorkerNeverWritesCanonical ==
    [][\A w \in Runs :
         WorkerStep(w) => documents'[Canonical] = documents[Canonical]
      ]_<<vars, handoffvars>>

\* C13 amended: of the canonical document a worker thread changes nothing but
\* secrets.cloud, and that only when cloud training is enabled in its own
\* snapshot: after setup(), and again when setup() or run() raised, it copies
\* its snapshot's secrets.cloud into the canonical document.  Outside the
\* ConfigService it writes the controller's status and, only when it ends
\* and its snapshot asks for the always-on TensorBoard, that subprocess.
C13_WorkerWritesOnlyCloudSecrets ==
    [][\A w \in Runs :
         WorkerStep(w) =>
            /\ \A f \in Fields \ SecretsCloud :
                 documents'[Canonical][f] = documents[Canonical][f]
            /\ documents'[Canonical] # documents[Canonical] =>
                 /\ hpc[w] \in {"setup", "train"}
                 /\ ConfigOf(w)["cloud_enabled"]
                 /\ documents'[Canonical]["secrets_cloud"] =
                      documents'[train_config[w]]["secrets_cloud"]
            /\ tensorboard_subprocess' # tensorboard_subprocess =>
                 hpc[w] \in {"restart", "launch"}
      ]_<<vars, handoffvars>>

\* Run 1, with cloud training enabled, is past setup(): its secrets.cloud,
\* which differs from the compiled-in one, is in the canonical document.
C13_Witness ==
    /\ hpc[1] = "train"
    /\ documents[1]["cloud_enabled"]
    /\ documents[1]["secrets_cloud"] = "k2"
    /\ documents[Canonical]["secrets_cloud"] = "k2"

\* ----------------------------------------------------------------- C15
\* C15: the error message a failed run leaves for status() is sanitized:
\* whatever exception its thread caught, the status update stores the same
\* fixed text, so two failing runs that differ only in the exception leave
\* the same error string.
C15_ErrorMessageSanitized ==
    [][\A w \in Runs :
         (hpc[w] = "set_status" /\ hpc'[w] # "set_status" /\ caught[w] # NoError) =>
            /\ status' = "error"
            /\ error_message' = FailedText
      ]_<<vars, handoffvars>>

\* Two runs have failed, with different exceptions, and status() shows the
\* fixed text.
C15_Witness ==
    /\ hpc[1] = "done" /\ caught[1] = "boom"
    /\ hpc[2] = "done" /\ caught[2] = "out of memory"
    /\ status = "error"
    /\ error_message = FailedText

\* ----------------------------------------------------------------- C16
\* C16: if start() of a run stopped the always-on TensorBoard subprocess,
\* which was live before the run, then the run's thread, when it has made
\* its status update (after success or failure alike), goes on to restart it.
C16_StoppedTensorboardRestarted ==
    [][\A w \in Runs :
         (hpc[w] = "set_status" /\ hpc'[w] # "set_status" /\ stopped_tensorboard[w]) =>
            hpc'[w] = "restart"
      ]_<<vars, handoffvars>>

\* ----------------------------------------------------------------- C17
\* C17: the training thread emits its messages in the order 1, 2, ...; every
\* client is sent the messages it is sent in that order, whatever the
\* interleaving of the broadcast tasks with connects, disconnects and sends
\* that wait on the event loop.
C17_FanOutOrdered ==
    \A s \in Subscribers :
        \A m, n \in 1..Len(inbox[s]) : m < n => inbox[s][m] < inbox[s][n]

\* Client 1 was sent both messages, client 2 registered between the two
\* fan-outs and was sent the second only.
C17_Witness ==
    /\ inbox[1] = <<1, 2>>
    /\ inbox[2] = <<2>>

\* ----------------------------------------------------------------- C18
\* C18: when manager.broadcast(message e) completes, every websocket that
\* was registered during the fan-out was sent e or had its send raise: a
\* send that raises does not end the fan-out.
C18_EveryRegisteredAttempted ==
    [][\A e \in Events :
        (btask[e].pc # "done" /\ btask'[e].pc = "done") =>
            \A s \in Subscribers :
                (\E j \in 1..Len(connections) : connections[j] = s) =>
                    \/ s \in btask[e].stale
                    \/ \E m \in 1..Len(inbox[s]) : inbox[s][m] = e]_bridgevars

\* Only broadcast 1 has run.  Its send to client 1, registered first, raised
\* (client 1 never closed, and is pruned); client 2 was sent the message all
\* the same.
C18_Witness ==
    /\ btask[1].pc = "done" /\ btask[2].pc = "none"
    /\ handler[1] = "open" /\ broken[1]
    /\ connections = <<2>>
    /\ inbox[1] = <<>>
    /\ inbox[2] = <<1>>

\* ----------------------------------------------------------------- C19
\* C19: the step that completes manager.broadcast(message e) removes from
\* the registry exactly the websockets whose send raised and keeps the
\* others in their order, and a message is only ever sent to a registered
\* websocket, so a removed one is sent nothing later.
C19_StalePruned ==
    [][/\ \A e \in Events :
            (btask[e].pc # "done" /\ btask'[e].pc = "done") =>
                connections' = SelectSeq(connections,
                                         LAMBDA c : c \notin btask[e].stale)
       /\ \A s \in Subscribers :
            inbox'[s] # inbox[s] =>
                \E j \in 1..Len(connections) : connections[j] = s]_bridgevars

\* Broadcast 2 is still in its fan-out and broadcast 1 has returned, so it
\* is broadcast 1 that removed client 2, which never closed and whose sends
\* raise; client 1 stayed registered and is the only one sent message 2.
C19_Witness ==
    /\ btask[1].pc = "done" /\ btask[2].pc = "sending"
    /\ handler[2] = "open" /\ broken[2]
    /\ connections = <<1>>
    /\ active_count = 1
    /\ inbox[1] = <<1, 2>>
    /\ inbox[2] = <<>>

\* ----------------------------------------------------------------- C20
\* C20: a call of broadcast_sync made while no client is registered puts no
\* task on the loop, sends nothing and changes nothing of the registry or
\* the bridge, whether the loop was captured or not.
C20_NoSubscriberNoOp ==
    [][(emitted' # emitted /\ active_count = 0) =>
        UNCHANGED <<connections, lock, event_loop, ready, btask, handler,
                    inbox, broken>>]_bridgevars

\* The loop is captured, the only client is gone again, and the call for
\* message 1 has returned without a task.
C20_Witness ==
    /\ event_loop
    /\ connections = <<>>
    /\ emitted = 1
    /\ btask[1] = NoTask
    /\ ready = <<>>

\* ----------------------------------------------------------------- C21
\* C21: a call of broadcast_sync made while a client is registered and no
\* loop is available (none captured, or the captured one stopped) drops the
\* message: no task is put on the loop, nothing is sent, the registry and
\* the bridge stay as they are and nothing is raised in the caller.
C21_NoLoopDrops ==
    [][(emitted' # emitted /\ active_count # 0 /\ ~(event_loop /\ loop_running)) =>
        UNCHANGED <<connections, lock, event_loop, loop_running, ready, btask,
                    handler, inbox, broken, raised>>]_bridgevars

\* Client 1 is the only client there ever was, it is registered and its
\* sends work; the call for message 1 scheduled a task on the captured
\* loop, the loop has stopped since, and the call for message 2 has
\* returned without a task.
C21_Witness ==
    /\ event_loop /\ ~loop_running
    /\ connections = <<1>>
    /\ handler[1] = "open" /\ ~broken[1]
    /\ handler[2] = "none"
    /\ emitted = 2
    /\ btask[1].pc # "none"
    /\ btask[2] = NoTask
    /\ raised = {}

\* ----------------------------------------------------------------- C22
\* C22: _capture_event_loop called where no event loop runs leaves the
\* reference as it was, unset if it was unset, and a reference once
\* captured is kept by every later call.
C22_CaptureOnceOnly ==
    [][/\ capture_event_loop_outside => event_loop' = event_loop
       /\ event_loop => event_loop']_bridgevars

\* The handlers of both clients have made their call of
\* _capture_event_loop, the second one with the loop already captured.
C22_Witness ==
    /\ event_loop
    /\ handler[1] = "open"
    /\ handler[2] = "open"

\* ----------------------------------------------------------------- C23
\* C23: a step of a scheduled broadcast, a send that raises and the return
\* of the task included, raises nothing in the thread that called
\* broadcast_sync, does not move that thread and leaves the lifecycle state
\* of the service as it is.
C23_FailuresContained ==
    [][(\E e \in Events : btask[e].pc # "none" /\ btask'[e] # btask[e]) =>
        /\ raised' = {}
        /\ emitted' = emitted
        /\ UNCHANGED vars]_bridgevars

\* Broadcast 1 has returned after its send to client 1 raised (the client
\* never closed and is registered no more); the training thread has made
\* its next call and nothing was raised in it.
C23_Witness ==
    /\ btask[1].pc = "done" /\ btask[2].pc = "scheduled"
    /\ handler[1] = "open" /\ broken[1]
    /\ connections = <<2>>
    /\ emitted = 2
    /\ raised = {}

\* ----------------------------------------------------------------- C24
\* C24: the training thread can always make its next call of
\* broadcast_sync: the call before returned once it had scheduled its task,
\* whether that task has run, waits for the lock, waits for a send that
\* never completes, or sits on a loop that is busy or stopped.
C24_CallerNeverWaits ==
    emitted < MaxEvents => ENABLED (\E e \in Events : broadcast_sync(e))

\* The training thread has made all its calls while broadcast 1 still holds
\* the lock waiting for a send and broadcast 2 waits for the lock.
C24_Witness ==
    /\ emitted = MaxEvents
    /\ lock.locked
    /\ btask[1].pc = "sending"
    /\ btask[2].pc = "lock_wait"

\* ----------------------------------------------------------------- C25
\* C25: the step in which manager.disconnect(s) runs its locked block takes
\* s out of the registry and keeps the others in their order if s is
\* registered, and leaves the registry as it is if s is not (a broadcast
\* has pruned it).
C25_DisconnectIdempotent ==
    [][\A s \in Subscribers :
        (handler[s] # "closed" /\ handler'[s] = "closed") =>
            IF \E j \in 1..Len(connections) : connections[j] = s
            THEN connections' = SelectSeq(connections, LAMBDA c : c # s)
            ELSE connections' = connections]_bridgevars

\* The handler of client 1 waited for the lock with its disconnect while a
\* broadcast found the client stale and pruned it; it is the next task to
\* run and finds its websocket gone from the registry.
C25_Witness ==
    /\ LoopRuns
    /\ handler[1] = "disconnect_wait"
    /\ ready # <<>> /\ Head(ready) = <<"handler", 1>>
    /\ connections = <<2>>
    /\ ENABLED manager_disconnect(1)

\* ----------------------------------------------------------------- C26
\* C26: every step that sends to a client or changes the registry or its
\* lock is a step of a task on the running event loop; a step of the
\* training thread, which reads active_count only, does neither.
C26_LoopThreadOnly ==
    [][(connections' # connections \/ inbox' # inbox \/ lock' # lock) =>
        /\ LoopRuns
        /\ emitted' = emitted]_bridgevars

\* The training thread has made both calls with the two clients
\* registered; message 1 was sent to both by the loop and the task of
\* message 2 waits on the loop's queue.
C26_Witness ==
    /\ emitted = 2
    /\ connections = <<1, 2>>
    /\ inbox[1] = <<1>> /\ inbox[2] = <<1>>
    /\ btask[2].pc = "scheduled"
    /\ ready = <<<<"broadcast", 2>>>>

C28_PatchNeverMigrates ==
    \A data \in RawMappings :
       LET patched == Apply(documents[Canonical], Stamped(data))
       IN  /\ MigrationSteps(Stamped(data)) = 0
           /\ to_dict(patched)["__version"] =
                 to_dict(documents[Canonical])["__version"]

\* ----------------------------------------------------------------- C29
\* C29: from every state and for every mapping, validate_config leaves
\* ConfigService.config as it was, so that to_dict() returns the same value
\* before and after, whether the reply is valid or lists errors; a reply
\* that says valid lists no error, and every field of the mapping was set
\* on the throwaway config.
C29_ValidateLeavesCanonical ==
    \A data \in RawMappings :
       LET validated == Validated(documents, data)
       IN  /\ to_dict(validated[Canonical]) = to_dict(documents[Canonical])
           /\ Result(data).valid =>
                /\ Result(data).errors = {}
                /\ \A f \in Fields \cap DOMAIN data :
                      validated[Throwaway][f] = Coerce(f, data[f])

\* The document was edited, and a mapping with another batch size has been
\* validated since: the throwaway config holds it, the document does not.
C29_Witness ==
    /\ documents[Canonical]["tensorboard"] = FALSE
    /\ documents[Canonical]["batch_size"] = "1"
    /\ documents[Throwaway]["batch_size"] = "16"
    /\ documents[Throwaway]["tensorboard"] = TRUE

\* ----------------------------------------------------------------- C30
\* serialize(load(d)): the mapping is read into a fresh default config,
\* which is serialised.
Normalized(d) == to_dict(from_dict(default_values, d))

\* The mappings that load without an error.
SchemaValid == {d \in RawMappings : Errors(d) = {}}

\* C30 as stated: for every schema-valid mapping d, loading and serialising
\* the serialised form of the loaded d gives that serialised form again;
\* and writing back what a read returned leaves ConfigService.config as it
\* was.
C30_RoundTripIdempotent ==
    /\ \A d \in SchemaValid : Normalized(Normalized(d)) = Normalized(d)
    /\ ENABLED (put_config_as_read /\ documents'[Canonical] = documents[Canonical])

\* C30 amended: serialising and loading is stable from the second pass on:
\* for every schema-valid mapping d, and for every config the service has
\* built, the serialised form that went once more through load and
\* serialise is reproduced by a further load and serialise.  The
\* serialised form of ConfigService.config is stable as it is, from the
\* first read on: writing back what a read returned leaves the config as
\* it was.
C30_RoundTripAfterNormalising ==
    /\ \A d \in SchemaValid :
          Normalized(Normalized(Normalized(d))) = Normalized(Normalized(d))
    /\ \A o \in Objects :
          Normalized(Normalized(to_dict(documents[o]))) = Normalized(to_dict(documents[o]))
    /\ Normalized(to_dict(documents[Canonical])) = to_dict(documents[Canonical])
    /\ ENABLED (put_config_as_read /\ documents'[Canonical] = documents[Canonical])

\* A mapping was loaded into a fresh config that still holds the port as
\* the compiled-in number, while the port of ConfigService.config was set
\* by a request and reads as text.
C30_Witness ==
    /\ documents[Throwaway]["batch_size"] = "16"
    /\ documents[Throwaway]["secrets_cloud_port"] = "0"
    /\ documents[Canonical]["secrets_cloud_port"] = "\"22\""
    /\ documents[Canonical]["batch_size"] = "1"

\* ----------------------------------------------------------------- C31
\* The mapping carries every key that a step from its version on reads.
Migratable(data) ==
    \A v \in VersionOf(data)..(config_version - 1) : ~MigrationRaises(v, data)

Default(f) == Coerce(f, default_values[f])

Failing(data) == {f \in Fields \cap DOMAIN data : ~Coerces(f, data[f])}

StatusReturned == response' # response /\ response'.op = "get_status"

\* C34: _status, _error_message, _start_time and _training_commands are
\* read and written under _status_lock only: while a get_status call is
\* inside the lock no other thread changes any of them, and the snapshot
\* the call returns is the value the three fields have at its return.
C34_GuardedByStatusLock ==
    [][/\ status_lock.holder # None =>
            UNCHANGED <<status, error_message, start_time, training_commands>>
       /\ StatusReturned =>
            response'.snapshot = [status |-> status, error |-> error_message,
                                  start_time |-> start_time]
      ]_vars

\* ----------------------------------------------------------------- C35
\* C35: a snapshot get_status returns with status idle or error has no
\* start time.
C35_SettledHasNoStartTime ==
    [][(StatusReturned /\ response'.snapshot.status \in {"idle", "error"}) =>
          response'.snapshot.start_time = None
      ]_vars

\* ----------------------------------------------------------------- C36
\* C36: what a training thread does after its final status update touches
\* its own run only: it changes neither the status nor the TrainCommands
\* handle, and the start time it clears is not one another run has stamped.
C36_ExitTouchesOwnRunOnly ==
    [][\A w \in Runs :
         (wpc[w] = "clear_start_time" /\ wpc'[w] # wpc[w]) =>
            /\ UNCHANGED <<status, error_message, training_commands>>
            /\ start_time \in {None, w}
      ]_vars

\* ----------------------------------------------------------------- C37
\* C37: whatever the interleaving of the threads inside get_instance, no
\* class is constructed more than once, what a call returns is the one
\* object of the class it was called on, and two classes have neither the
\* instance nor the lock in common.
C37_OneInstancePerClass ==
    /\ \A cls \in ServiceClasses :
          /\ constructed[cls] <= 1
          /\ instances[cls] # NoInstance => instances[cls] = New(cls, 1)
    /\ \A t \in Calls : got[t] # NoInstance => got[t] = New(got[t].class, 1)
    /\ \A t \in Calls : (gpc[t] = "none" /\ got[t] # NoInstance) => got[t] = instances[gcls[t]]
    /\ \A a, b \in ServiceClasses :
          a # b => /\ LockOf(a) # LockOf(b)
                   /\ (instances[a] # NoInstance => instances[a] # instances[b])

\* A thread that saw no instance at line 15 is inside the lock and finds,
\* at its second look, the object another thread has built and returned
\* meanwhile; a third thread holds the instance of the other class.
C37_Witness ==
    \E t, u, v \in Calls :
        /\ gpc[t] = "construct"
        /\ instances[gcls[t]] = New(gcls[t], 1)
        /\ gpc[u] = "none" /\ got[u] = instances[gcls[t]]
        /\ gpc[v] = "none" /\ got[v] # NoInstance /\ got[v].class # gcls[t]

\* ----------------------------------------------------------------- C38
\* C38: there is never more than one tool thread, and a generate call
\* whose check is made while a tool thread exists is turned down.
C38_SingleToolThread ==
    [][/\ Cardinality(ToolThreads') <= 1
       /\ \A c \in Calls :
            (tcpc[c] = "none" /\ tcpc'[c] = "generate_running") => ToolThreads = {}
      ]_toolvars

\* ----------------------------------------------------------------- C39
\* C39: what validate_config returns is a function of the mapping alone:
\* the reply to every finished call is the one the mapping determines,
\* whatever the other threads printed meanwhile, so two calls with the
\* same mapping get the same reply.
C39_ValidateDependsOnInputOnly ==
    /\ \A c \in Calls : vpc[c] = "done" => vresult[c] = Result(vdata[c])
    /\ \A c, d \in Calls :
          (vpc[c] = "done" /\ vpc[d] = "done" /\ vdata[c] = vdata[d])
             => vresult[c] = vresult[d]

\* ----------------------------------------------------------------- C40
\* C40: what a client of the terminal stream has received, the replay and
\* the live lines together, is in append order with no line twice, and
\* the replay is never longer than the buffer.
C40_StreamInAppendOrder ==
    \A s \in Subscribers :
        /\ Len(log_history[s]) <= maxlen
        /\ \A i, j \in 1..Len(log_inbox[s]) :
              i < j => log_inbox[s][i] < log_inbox[s][j]

====
